---- MODULE Spec2Model ----
(***************************************************************************)
(* EMA Tracker (src/node.js): per-symbol stream sessions, the stream       *)
(* supervisor (reconciliation, heartbeat, reconnect timers), candle        *)
(* processing and the crossover/alert policy.                              *)
(*                                                                         *)
(* Scaling.  Candle counts are in units of 50 candles: EMA_PERIOD = 2      *)
(* stands for the configurable period 100, KLINE_EXTRA = 2 for the 100     *)
(* extra candles getKlines requests.  The clock `now` is in units of five  *)
(* minutes: ALERT_COOLDOWN = 3 stands for 15 minutes.  Prices are in       *)
(* units of 1/18: 180 is 10.0 and 198 is 11.0, so that every division of   *)
(* calculateEMA over a retained window is exact.                           *)
(***************************************************************************)
EXTENDS Integers, Sequences, FiniteSets, TLC

\* ------------------------------------------------------------------ bounds
MaxSockets == 3      \* transports (or failed attempts) per symbol
MaxTimers  == 2      \* pending reconnect timers per symbol
MaxCandles == 3      \* closed candles the market produces per symbol
MaxTime    == 6      \* last clock value
MaxPending == 2      \* crossover checks awaiting their prediction
MaxFaults  == 2      \* failures, peer drops, operator commands and volume changes in a run
MaxMonth   == 2      \* last calendar month of a run
MaxLookups == 2      \* price lookups of the labelling timers in flight
MaxPoints  == 5      \* data points created per symbol
MaxVersions == 4     \* version directories created in a run
MaxLen     == 3      \* longest array handed to an indicator function

\* --------------------------------------------------------- program constants
ALERT_COOLDOWN == 3  \* node.js:21 (15 minutes, in 5-minute units)
KLINE_EXTRA    == 2  \* node.js:288 (100 extra candles, in 50-candle units)
\* `klines.length >= 30`: the candles processClosedCandle needs to collect a data point
ML_MIN_KLINES == 1
\* `slice(-1000)`: the data points kept in memory per symbol
TRAINING_CAP == 2
\* `i < klines.length - 100`: the candles startManualDataCollection replays
MANUAL_WINDOW == 2
DEFAULT_EMA_PERIOD == 2
\* the periods of the settings menu: EMA 50, EMA 100, EMA 200
EmaPeriods == {1, 2, 4}   \* node.js:17 (configured period, in 50-candle units)

\* ml_alternative.js, scaled: 50 cached models, 5 versions kept, 5 versions
\* in an ensemble, 5 trials of the hyperparameter search
CACHE_LIMIT == 1
\* node.js, scaled: 100 labelled points make a symbol trainable
TRAIN_MIN == 1
KEEP_COUNT == 2
ENSEMBLE_SIZE == 2
NUM_TRIALS == 2
\* node.js, scaled: `trainedCount % 5 === 0`, the trained models between two
\* progress messages of trainAllModels
PROGRESS_EVERY == 2

Symbols  == {"s1", "s2"}
SymOrder == <<"s1", "s2">>      \* order of the ticker response
Prices   == {180, 198}
BasePrice == CHOOSE p \in Prices : \A q \in Prices : p <= q
Months   == 1..MaxMonth

VARIABLES
    faults,                \* disturbances so far (bounds the environment)
    eligible,              \* symbols whose 24h quote volume exceeds VOLUME_THRESHOLD (exchange)
    mktHist,               \* exchange: closes of the closed candles, per symbol
    now,                   \* Date.now()
    boot,                  \* position of initialize()
    initialLoadComplete,
    EMA_PERIOD,
    ML_ENABLED,
    trackedPairs,
    sockets,               \* per symbol: every transport setupSymbolWebSocket tried to create
    activeWebSockets,      \* per symbol: index into sockets[s], 0 = no map entry
    reconnectTimers,       \* per symbol: pending setTimeout(() => setupSymbolWebSocket(symbol), 5000)
    saw,                   \* the running setupAllWebSockets()
    cec,                   \* the running checkEMACross()
    pendingNewPairAlerts,  \* alertNewHighVolumePairs: pairs whose sendMessage is awaited
    klineCache,
    emaCache,
    coinStates,
    lastAlerts,
    pendingChecks,         \* checkForCrossover calls suspended at `await predictPriceMovement`
    alerts,                \* per symbol: crossover alerts handed to the notifier
    realtime,              \* per symbol: what processRealtimeCandle made of the last update
    alertSends,            \* crossover alerts whose Telegram send checkForCrossover awaits
    trainingData,          \* per symbol: the data points held in memory
    dataFiles,             \* per symbol and month: ML_DATA_DIR/<symbol>/<year-month>.json
    labelTimers,           \* per symbol: timestamps of the armed updateFuturePriceChange timers
    labelLookups,          \* updateFuturePriceChange calls awaiting getCurrentPrice
    month,                 \* calendar month of the wall clock
    pointsMade,            \* per symbol: data point objects created so far
    mc,                    \* the running startManualDataCollection()
    versionDirs,           \* per symbol: models/<symbol>/v<timestamp>-<nnn>, in creation order
    latest,                \* per symbol: models/<symbol>/latest
    rootFiles,             \* per symbol: model.json, features.json, performance.json of models/<symbol>
    modelCache,            \* ml_alternative.js modelCache, in insertion order
    versionsMade,          \* version directories created so far
    answer,                \* what the last call of a model-store reader returned
    jobs,                  \* per symbol: the running trainModelForSymbol calls
    runs                   \* the running training loops of node.js

vars == <<faults, eligible, mktHist, now, boot, initialLoadComplete, EMA_PERIOD,
          ML_ENABLED, trackedPairs, sockets, activeWebSockets, reconnectTimers,
          saw, cec, pendingNewPairAlerts, klineCache, emaCache,
          coinStates, lastAlerts, pendingChecks, alerts, realtime, alertSends,
          trainingData, dataFiles, labelTimers, labelLookups, month, pointsMade, mc,
          versionDirs, latest, rootFiles, modelCache, versionsMade, answer, jobs, runs>>

connVars   == <<trackedPairs, sockets, activeWebSockets, reconnectTimers>>
marketVars == <<mktHist>>
cacheVars  == <<klineCache, emaCache>>
alertVars  == <<coinStates, lastAlerts, alerts>>
configVars == <<EMA_PERIOD, ML_ENABLED>>
dataVars   == <<trainingData, dataFiles, labelTimers, labelLookups, month, pointsMade, mc>>
storeVars  == <<versionDirs, latest, rootFiles, versionsMade>>
mlVars     == <<storeVars, modelCache, answer, jobs, runs>>

\* ----------------------------------------------------------------- helpers
\* n more disturbances happen in this step
Disturb(n) == faults + n <= MaxFaults /\ faults' = faults + n

Cost(ok) == IF ok THEN 0 ELSE 1

Last(seq) == seq[Len(seq)]

\* Array.prototype.slice(-n)
SliceLast(seq, n) ==
    IF Len(seq) <= n THEN seq ELSE SubSeq(seq, Len(seq) - n + 1, Len(seq))

RECURSIVE SumSeq(_)
SumSeq(seq) == IF seq = <<>> THEN 0 ELSE seq[1] + SumSeq(Tail(seq))

Closes(klines) == [i \in 1..Len(klines) |-> klines[i].close]

RECURSIVE EmaFrom(_, _, _, _)
EmaFrom(prices, period, i, ema) ==
    IF i > Len(prices) THEN <<>>
    ELSE LET next == (((prices[i] - ema) * 2) \div (period + 1)) + ema
         IN  <<next>> \o EmaFrom(prices, period, i + 1, next)

calculateEMA(prices, period) ==
    IF Len(prices) < period THEN <<>>
    ELSE LET sma == SumSeq(SubSeq(prices, 1, period)) \div period
         IN  <<sma>> \o EmaFrom(prices, period, period + 1, sma)

\* What GET /fapi/v1/klines returns: the last `limit` candles, the still-open
\* one (its price p at the time of the request) last.
ExchangeKlines(s, p) ==
    LET all == [i \in 1..(Len(mktHist[s]) + 1) |->
                  [time |-> i,
                   close |-> IF i <= Len(mktHist[s]) THEN mktHist[s][i] ELSE p]]
    IN  SliceLast(all, EMA_PERIOD + KLINE_EXTRA)

\* ------------------------------------------------------------- transports
Live(sk) == sk.readyState \in {"CONNECTING", "OPEN"}

\* ws.close(): an open or connecting transport starts closing, others are left alone
wsClose(sk) == IF Live(sk) THEN [sk EXCEPT !.readyState = "CLOSING"] ELSE sk

NewSocket(ok) ==
    IF ok THEN [readyState |-> "CONNECTING", backfill |-> "pending"]
          ELSE [readyState |-> "FAILED", backfill |-> "none"]

\* setupSymbolWebSocket(symbol) without closing the transport it replaces
SocketsAfterSetupNoClose(s, ok) == Append(sockets[s], NewSocket(ok))

\* setupSymbolWebSocket(symbol): the transports of the symbol afterwards.
\* ok = FALSE: `new WebSocket(wsUrl)` threw and the catch returned null.
SocketsAfterSetup(s, ok) ==
    LET a == activeWebSockets[s]
        closed == IF a # 0 THEN [sockets[s] EXCEPT ![a] = wsClose(@)] ELSE sockets[s]
    IN  Append(closed, NewSocket(ok))

\* setupSymbolWebSocket(symbol): the map entry afterwards
ActiveAfterSetup(s, ok) == IF ok THEN Len(sockets[s]) + 1 ELSE activeWebSockets[s]

CanSetup(s) == Len(sockets[s]) < MaxSockets

HasLive(s) == \E i \in 1..Len(sockets[s]) : Live(sockets[s][i])

ActiveState(s) ==
    IF activeWebSockets[s] = 0 THEN "NONE" ELSE sockets[s][activeWebSockets[s]].readyState

\* ------------------------------------------------------------ getFuturesPairs
\* ok = FALSE: the ticker request failed and the catch returned [].
PairsOf(ok)        == IF ok THEN eligible ELSE {}
TrackedAfter(ok)   == IF ok THEN trackedPairs \cup eligible ELSE trackedPairs
NewPairsOf(ok)     == IF ok /\ initialLoadComplete THEN eligible \ trackedPairs ELSE {}


\* ------------------------------------------------------- crossover policy
\* a compared with b
Cmp(a, b) == IF a < b THEN "lt" ELSE IF a > b THEN "gt" ELSE "eq"

\* The call checkForCrossover(symbol, prevPrice, lastPrice, prevEMA, lastEMA)
\* made from a candle window and the EMA values computed over it
\* (node.js:675-681, node.js:1203-1210).  The function only compares prevPrice
\* with prevEMA and lastPrice with lastEMA, so a call is kept as these two
\* comparisons.
CheckArgs(s, klines, ema) ==
    [sym  |-> s,
     prev |-> Cmp(klines[Len(klines) - 1].close, ema[Len(ema) - 1]),
     last |-> Cmp(Last(klines).close, Last(ema))]

\* const currentState = lastPrice > lastEMA ? 'above' : 'below'
currentStateOf(chk) == IF chk.last = "gt" THEN "above" ELSE "below"

\* prevPrice < prevEMA && lastPrice > lastEMA
UpCross(chk)   == chk.prev = "lt" /\ chk.last = "gt"
\* prevPrice > prevEMA && lastPrice < lastEMA
DownCross(chk) == chk.prev = "gt" /\ chk.last = "lt"

\* shouldAlert with the cooldown test dropped
shouldAlertNoCooldown(s, currentState) == coinStates[s] # currentState

\* shouldAlert with a strict cooldown comparison
shouldAlertStrict(s, currentState) ==
    /\ coinStates[s] # currentState
    /\ now - lastAlerts[s] > ALERT_COOLDOWN

\* shouldAlert(symbol, currentState): its return value
shouldAlert(s, currentState) ==
    /\ coinStates[s] # currentState
    /\ now - lastAlerts[s] >= ALERT_COOLDOWN

\* checkForCrossover keeping the old side when the cooldown skips the alert
CoinStateAfterKeepOnSkip(chk) ==
    LET s == chk.sym
        cs == currentStateOf(chk)
    IN  IF UpCross(chk) \/ DownCross(chk)
        THEN (IF shouldAlert(s, cs) THEN cs ELSE coinStates[s])
        ELSE cs

\* coinStates.get(symbol) after checkForCrossover has decided
CoinStateAfter(chk) ==
    LET s == chk.sym
        cs == currentStateOf(chk)
    IN  IF UpCross(chk) \/ DownCross(chk)
        THEN (IF coinStates[s] # cs THEN cs ELSE coinStates[s])
        ELSE cs

Alerting(chk) ==
    /\ UpCross(chk) \/ DownCross(chk)
    /\ shouldAlert(chk.sym, currentStateOf(chk))

\* lastAlerts.get(symbol) after checkForCrossover has decided
LastAlertAfter(chk) == IF Alerting(chk) THEN now ELSE lastAlerts[chk.sym]

\* the alerts handed to sendTelegramAlert / sendTelegramAlertWithML
AlertsAfter(chk) ==
    IF Alerting(chk)
    THEN Append(alerts[chk.sym],
                [time |-> now, dir |-> IF UpCross(chk) THEN "up" ELSE "down"])
    ELSE alerts[chk.sym]

\* the sendTelegramAlert / sendTelegramAlertWithML call checkForCrossover awaits
SendsAfter(chk) ==
    IF Alerting(chk)
    THEN {[sym |-> chk.sym, time |-> now, dir |-> IF UpCross(chk) THEN "up" ELSE "down"]}
    ELSE {}

\* checkForCrossover called for every record of `chks` (at most one per symbol):
\* with ML enabled each call suspends at `await predictPriceMovement`, without
\* it each call decides before it returns.
checkForCrossover(chks) ==
    IF ML_ENABLED
    THEN /\ Cardinality(pendingChecks \cup chks) <= MaxPending
         /\ pendingChecks' = pendingChecks \cup chks
         /\ UNCHANGED <<alertVars, alertSends>>
    ELSE /\ pendingChecks' = pendingChecks
         /\ coinStates' = [s \in Symbols |->
               IF \E c \in chks : c.sym = s
               THEN CoinStateAfter(CHOOSE c \in chks : c.sym = s) ELSE coinStates[s]]
         /\ lastAlerts' = [s \in Symbols |->
               IF \E c \in chks : c.sym = s
               THEN LastAlertAfter(CHOOSE c \in chks : c.sym = s) ELSE lastAlerts[s]]
         /\ alerts' = [s \in Symbols |->
               IF \E c \in chks : c.sym = s
               THEN AlertsAfter(CHOOSE c \in chks : c.sym = s) ELSE alerts[s]]
         /\ alertSends' = alertSends \cup UNION {SendsAfter(c) : c \in chks}

\* The continuation of checkForCrossover after the prediction has settled.
CrossoverDecide(chk) ==
    /\ chk \in pendingChecks
    /\ pendingChecks' = pendingChecks \ {chk}
    /\ coinStates' = [coinStates EXCEPT ![chk.sym] = CoinStateAfter(chk)]
    /\ lastAlerts' = [lastAlerts EXCEPT ![chk.sym] = LastAlertAfter(chk)]
    /\ alerts' = [alerts EXCEPT ![chk.sym] = AlertsAfter(chk)]
    /\ alertSends' = alertSends \cup SendsAfter(chk)
    /\ UNCHANGED mlVars
    /\ UNCHANGED <<dataVars, realtime>>
    /\ UNCHANGED <<faults, eligible, marketVars, now, boot, initialLoadComplete, configVars,
                   connVars, saw, cec, pendingNewPairAlerts, cacheVars>>

\* The Telegram send checkForCrossover awaits settles (sent or failed) and
\* the call returns.
AlertSendSettles(snd) ==
    /\ snd \in alertSends
    /\ alertSends' = alertSends \ {snd}
    /\ UNCHANGED mlVars
    /\ UNCHANGED <<dataVars, realtime>>
    /\ UNCHANGED <<faults, eligible, marketVars, now, boot, initialLoadComplete, configVars,
                   connVars, saw, cec, pendingNewPairAlerts, cacheVars, alertVars,
                   pendingChecks>>

\* ------------------------------------------------------------ model store
\* Symbols the model functions are called with
ModelSymbols == {"s1", "s2", "s3"}

\* Denormalized outputs of trained networks (percent) and the stdDev of their
\* performance.json
Outs == {-4, 2}
StdDevs == {0, 2}

\* The feature objects of a prediction request: every required feature a
\* number, or one of them missing or NaN
FeatureInputs == {"numeric", "missing"}

\* a file that does not exist
NoVersion == [id |-> 0, out |-> 0, stdDev |-> 0]

NoLatest == [kind |-> "none", target |-> 0, model |-> NoVersion,
             hyperparams |-> NoVersion, features |-> NoVersion,
             performance |-> NoVersion]

NoRoot == [model |-> NoVersion, features |-> NoVersion, performance |-> NoVersion]

NoAnswer == [fn |-> "none", sym |-> "none", ok |-> FALSE]

\* Slots of running trainModelForSymbol calls
JobSlots == 1..2
FreeJob == [pc |-> "free", sym |-> "none", trial |-> 0, best |-> FALSE, run |-> "none"]

\* What starts a training loop of node.js: the 12-hour interval, the /train
\* message, the train_models button
Triggers == {"interval", "command", "button"}
\* A training loop: its position, the symbols still to come, and the locals
\* symbolsToTrain.length, trainedCount and failedCount, which stay as the
\* closing report shows them once the loop has completed (done)
IdleRun == [pc |-> "idle", todo |-> <<>>, total |-> 0, trainedCount |-> 0,
            failedCount |-> 0, done |-> FALSE]

InitMl ==
    /\ versionDirs = [s \in ModelSymbols |-> <<>>]
    /\ latest = [s \in ModelSymbols |-> NoLatest]
    /\ rootFiles = [s \in ModelSymbols |-> NoRoot]
    /\ modelCache = <<>>
    /\ versionsMade = 0
    /\ answer = NoAnswer
    /\ jobs = [k \in JobSlots |-> FreeJob]
    /\ runs = [t \in Triggers |-> IdleRun]

\* ------------------------------------------------------------------- Init
NoRealtime == [prevState |-> "none", currentState |-> "none", price |-> 0]
IdleMc == [pc |-> "idle", todo |-> {}, sym |-> "none", klines |-> <<>>, i |-> 1,
           shared |-> FALSE]
IdleSaw == [pc |-> "idle", pairs |-> {}, idx |-> 1]
IdleCec == [pc |-> "idle", pairs |-> {}, waiting |-> {},
            results |-> [s \in Symbols |-> <<>>], shared |-> {}]

\* The process as initialize() finds it, but for the data it loads
InitProcess ==
    /\ faults = 0
    /\ now = ALERT_COOLDOWN
    /\ boot = "check"
    /\ initialLoadComplete = FALSE
    /\ EMA_PERIOD = DEFAULT_EMA_PERIOD
    /\ trackedPairs = {}
    /\ sockets = [s \in Symbols |-> <<>>]
    /\ activeWebSockets = [s \in Symbols |-> 0]
    /\ reconnectTimers = [s \in Symbols |-> 0]
    /\ saw = IdleSaw
    /\ cec = [IdleCec EXCEPT !.pc = "pairs"]
    /\ pendingNewPairAlerts = {}
    /\ klineCache = [s \in Symbols |-> <<>>]
    /\ emaCache = [s \in Symbols |-> <<>>]
    /\ coinStates = [s \in Symbols |-> "none"]
    /\ lastAlerts = [s \in Symbols |-> 0]
    /\ pendingChecks = {}
    /\ alerts = [s \in Symbols |-> <<>>]
    /\ realtime = [s \in Symbols |-> NoRealtime]
    /\ alertSends = {}
    /\ labelTimers = [s \in Symbols |-> <<>>]
    /\ labelLookups = <<>>
    /\ month = 1
    /\ pointsMade = [s \in Symbols |-> 0]
    /\ mc = IdleMc
    /\ InitMl

\* The first start: no file of data points exists
InitCommon ==
    /\ InitProcess
    /\ trainingData = [s \in Symbols |-> <<>>]
    /\ dataFiles = [s \in Symbols |-> [m \in Months |-> <<>>]]


\* ------------------------------------------------------------ supervisor
\* The exchange: a symbol's 24h volume crosses VOLUME_THRESHOLD in either direction.
EligibilityChange(s) ==
    /\ Disturb(1)
    /\ eligible' = IF s \in eligible THEN eligible \ {s} ELSE eligible \cup {s}
    /\ UNCHANGED mlVars
    /\ UNCHANGED <<dataVars, realtime, alertSends>>
    /\ UNCHANGED <<marketVars, now, boot, initialLoadComplete, configVars, connVars,
                   saw, cec, pendingNewPairAlerts, cacheVars,
                   alertVars, pendingChecks>>

\* initialize(): what follows the awaited checkEMACross(), and the awaited setupAllWebSockets()
AfterCheck ==
    IF boot = "check"
    THEN boot' = "setup" /\ saw' = [IdleSaw EXCEPT !.pc = "fetch"]
         /\ UNCHANGED initialLoadComplete
    ELSE UNCHANGED <<boot, saw, initialLoadComplete>>

AfterSetupAll ==
    IF boot = "setup"
    THEN boot' = "run" /\ initialLoadComplete' = TRUE
    ELSE UNCHANGED <<boot, initialLoadComplete>>

\* setupAllWebSockets: `!activeWebSockets.has(symbol) || readyState !== WebSocket.OPEN`
NeedsSetup(s) == ActiveState(s) # "OPEN"

\* position in the ticker order of the next pair the setup loop connects, 0 if none
FirstNeeding(pairs, from) ==
    LET cand == {j \in from..Len(SymOrder) : SymOrder[j] \in pairs /\ NeedsSetup(SymOrder[j])}
    IN  IF cand = {} THEN 0 ELSE CHOOSE j \in cand : \A k \in cand : j <= k

\* The volume_ button (and initialize) call setupAllWebSockets(), which awaits the ticker.
SetupAllStart ==
    /\ Disturb(1)
    /\ boot = "run" /\ saw.pc = "idle"
    /\ saw' = [IdleSaw EXCEPT !.pc = "fetch"]
    /\ UNCHANGED mlVars
    /\ UNCHANGED <<dataVars, realtime, alertSends>>
    /\ UNCHANGED <<eligible, marketVars, now, boot, initialLoadComplete, configVars,
                   connVars, cec, pendingNewPairAlerts, cacheVars,
                   alertVars, pendingChecks>>

\* refreshWebSockets: close and forget every transport, then setupAllWebSockets()
refreshWebSockets ==
    /\ Disturb(1)
    /\ boot = "run" /\ saw.pc = "idle"
    /\ sockets' = [s \in Symbols |->
          IF activeWebSockets[s] # 0
          THEN [sockets[s] EXCEPT ![activeWebSockets[s]] = wsClose(@)] ELSE sockets[s]]
    /\ activeWebSockets' = [s \in Symbols |-> 0]
    /\ saw' = [IdleSaw EXCEPT !.pc = "fetch"]
    /\ UNCHANGED mlVars
    /\ UNCHANGED <<dataVars, realtime, alertSends>>
    /\ UNCHANGED <<eligible, marketVars, now, boot, initialLoadComplete, configVars,
                   trackedPairs, reconnectTimers, cec, pendingNewPairAlerts, cacheVars, alertVars, pendingChecks>>

\* The operator presses an EMA button of the settings menu: the callback
\* handler assigns EMA_PERIOD and saves the settings before its first await;
\* the refresh it goes on to is the refreshWebSockets step.
emaPeriodChange(n) ==
    /\ Disturb(1)
    /\ boot = "run"
    /\ EMA_PERIOD' = n
    /\ UNCHANGED mlVars
    /\ UNCHANGED <<dataVars, realtime, alertSends>>
    /\ UNCHANGED <<eligible, marketVars, now, boot, initialLoadComplete, ML_ENABLED,
                   connVars, saw, cec, pendingNewPairAlerts, cacheVars, alertVars,
                   pendingChecks>>

\* setupAllWebSockets from the ticker response to its first `await` in the setup
\* loop: getFuturesPairs' filter, the close loop, the first pair that needs a transport.
SawPairsResp(ok, wsok) ==
    /\ Disturb(Cost(ok) + Cost(wsok))
    /\ saw.pc = "fetch"
    /\ LET pairs == PairsOf(ok)
           j == FirstNeeding(pairs, 1)
           target == IF j = 0 THEN "none" ELSE SymOrder[j]
       IN  /\ j # 0 => CanSetup(target)
           /\ j = 0 => wsok
           /\ trackedPairs' = TrackedAfter(ok)
           /\ pendingNewPairAlerts' = pendingNewPairAlerts \cup NewPairsOf(ok)
           /\ sockets' = [s \in Symbols |->
                 IF s = target THEN SocketsAfterSetup(s, wsok)
                 ELSE IF s \notin pairs /\ activeWebSockets[s] # 0
                      THEN [sockets[s] EXCEPT ![activeWebSockets[s]] = wsClose(@)]
                      ELSE sockets[s]]
           /\ activeWebSockets' = [s \in Symbols |->
                 IF s = target THEN ActiveAfterSetup(s, wsok)
                 ELSE IF s \notin pairs THEN 0 ELSE activeWebSockets[s]]
           /\ IF j = 0
              THEN saw' = IdleSaw /\ AfterSetupAll
              ELSE /\ saw' = [pc |-> "loop", pairs |-> pairs, idx |-> j + 1]
                   /\ UNCHANGED <<boot, initialLoadComplete>>
    /\ UNCHANGED mlVars
    /\ UNCHANGED <<dataVars, realtime, alertSends>>
    /\ UNCHANGED <<eligible, marketVars, now, configVars, reconnectTimers, cec, cacheVars, alertVars, pendingChecks>>

\* setupAllWebSockets resumed after the 100 ms pause of its setup loop
SawResume(wsok) ==
    /\ Disturb(Cost(wsok))
    /\ saw.pc = "loop"
    /\ LET j == FirstNeeding(saw.pairs, saw.idx)
           target == IF j = 0 THEN "none" ELSE SymOrder[j]
       IN  IF j = 0
           THEN /\ wsok
                /\ saw' = IdleSaw /\ AfterSetupAll
                /\ UNCHANGED <<sockets, activeWebSockets>>
           ELSE /\ CanSetup(target)
                /\ sockets' = [sockets EXCEPT ![target] = SocketsAfterSetup(target, wsok)]
                /\ activeWebSockets' =
                      [activeWebSockets EXCEPT ![target] = ActiveAfterSetup(target, wsok)]
                /\ saw' = [saw EXCEPT !.idx = j + 1]
                /\ UNCHANGED <<boot, initialLoadComplete>>
    /\ UNCHANGED mlVars
    /\ UNCHANGED <<dataVars, realtime, alertSends>>
    /\ UNCHANGED <<eligible, marketVars, now, configVars, trackedPairs, reconnectTimers,
                   cec, pendingNewPairAlerts, cacheVars, alertVars,
                   pendingChecks>>

\* startWebSocketHeartbeat: `readyState === CLOSED || readyState === CLOSING`
HeartbeatRestarts(s) == ActiveState(s) \in {"CLOSED", "CLOSING"}

\* startWebSocketHeartbeat: one scan of the interval callback over activeWebSockets
Heartbeat(wsok) ==
    /\ boot = "run"
    /\ Disturb(Cardinality({s \in Symbols : HeartbeatRestarts(s) /\ CanSetup(s) /\ ~wsok[s]}))
    /\ sockets' = [s \in Symbols |->
          IF HeartbeatRestarts(s) /\ CanSetup(s)
          THEN SocketsAfterSetup(s, wsok[s]) ELSE sockets[s]]
    /\ activeWebSockets' = [s \in Symbols |->
          IF HeartbeatRestarts(s) /\ CanSetup(s)
          THEN ActiveAfterSetup(s, wsok[s]) ELSE activeWebSockets[s]]
    /\ UNCHANGED mlVars
    /\ UNCHANGED <<dataVars, realtime, alertSends>>
    /\ UNCHANGED <<eligible, marketVars, now, boot, initialLoadComplete, configVars,
                   trackedPairs, reconnectTimers, saw, cec, pendingNewPairAlerts,
                   cacheVars, alertVars, pendingChecks>>

\* ws 'open'
WsOpen(s, i) ==
    /\ i \in 1..Len(sockets[s]) /\ sockets[s][i].readyState = "CONNECTING"
    /\ sockets' = [sockets EXCEPT ![s][i].readyState = "OPEN"]
    /\ UNCHANGED mlVars
    /\ UNCHANGED <<dataVars, realtime, alertSends>>
    /\ UNCHANGED <<faults, eligible, marketVars, now, boot, initialLoadComplete, configVars,
                   trackedPairs, activeWebSockets, reconnectTimers, saw, cec,
                   pendingNewPairAlerts, cacheVars, alertVars,
                   pendingChecks>>

\* ws 'error': the transport fails and the handler arms a reconnect timer
WsError(s, i) ==
    /\ Disturb(1)
    /\ i \in 1..Len(sockets[s]) /\ Live(sockets[s][i])
    /\ reconnectTimers[s] < MaxTimers
    /\ sockets' = [sockets EXCEPT ![s][i].readyState = "CLOSING"]
    /\ reconnectTimers' = [reconnectTimers EXCEPT ![s] = @ + 1]
    /\ UNCHANGED mlVars
    /\ UNCHANGED <<dataVars, realtime, alertSends>>
    /\ UNCHANGED <<eligible, marketVars, now, boot, initialLoadComplete, configVars,
                   trackedPairs, activeWebSockets, saw, cec, pendingNewPairAlerts, cacheVars, alertVars, pendingChecks>>

\* ws 'close': a closing transport, or an open one the peer drops, is closed;
\* the handler arms a reconnect timer if the symbol is in trackedPairs
WsCloseEvent(s, i) ==
    /\ Disturb(IF i \in 1..Len(sockets[s]) /\ sockets[s][i].readyState = "OPEN" THEN 1 ELSE 0)
    /\ i \in 1..Len(sockets[s]) /\ sockets[s][i].readyState \in {"OPEN", "CLOSING"}
    /\ s \in trackedPairs => reconnectTimers[s] < MaxTimers
    /\ sockets' = [sockets EXCEPT ![s][i].readyState = "CLOSED"]
    /\ reconnectTimers' = [reconnectTimers EXCEPT ![s] =
                              IF s \in trackedPairs THEN @ + 1 ELSE @]
    /\ UNCHANGED mlVars
    /\ UNCHANGED <<dataVars, realtime, alertSends>>
    /\ UNCHANGED <<eligible, marketVars, now, boot, initialLoadComplete, configVars,
                   trackedPairs, activeWebSockets, saw, cec, pendingNewPairAlerts, cacheVars, alertVars, pendingChecks>>

\* a reconnect timer fires: setupSymbolWebSocket(symbol)
ReconnectTimerFires(s, wsok) ==
    /\ Disturb(Cost(wsok))
    /\ reconnectTimers[s] > 0
    /\ CanSetup(s)
    /\ reconnectTimers' = [reconnectTimers EXCEPT ![s] = @ - 1]
    /\ sockets' = [sockets EXCEPT ![s] = SocketsAfterSetup(s, wsok)]
    /\ activeWebSockets' = [activeWebSockets EXCEPT ![s] = ActiveAfterSetup(s, wsok)]
    /\ UNCHANGED mlVars
    /\ UNCHANGED <<dataVars, realtime, alertSends>>
    /\ UNCHANGED <<eligible, marketVars, now, boot, initialLoadComplete, configVars,
                   trackedPairs, saw, cec, pendingNewPairAlerts,
                   cacheVars, alertVars, pendingChecks>>

\* alertNewHighVolumePairs: the awaited sendMessage of one pair settles
\* (sent = FALSE: it rejected and the catch only logs)
alertNewHighVolumePairs(s, sent, wsok) ==
    /\ Disturb(Cost(sent) + Cost(wsok))
    /\ s \in pendingNewPairAlerts
    /\ pendingNewPairAlerts' = pendingNewPairAlerts \ {s}
    /\ IF sent
       THEN /\ CanSetup(s)
            /\ sockets' = [sockets EXCEPT ![s] = SocketsAfterSetup(s, wsok)]
            /\ activeWebSockets' = [activeWebSockets EXCEPT ![s] = ActiveAfterSetup(s, wsok)]
       ELSE wsok /\ UNCHANGED <<sockets, activeWebSockets>>
    /\ UNCHANGED mlVars
    /\ UNCHANGED <<dataVars, realtime, alertSends>>
    /\ UNCHANGED <<eligible, marketVars, now, boot, initialLoadComplete, configVars,
                   trackedPairs, reconnectTimers, saw, cec, cacheVars, alertVars,
                   pendingChecks>>


\* ------------------------------------------------------- candles and klines
\* getKlines(symbol) started by setupSymbolWebSocket settles (ok = FALSE: the
\* request failed, the catch returned [] and the caches were not touched).
\* Replacing klineCache ends the sharing of the old array with checkEMACross.
SessionKlinesResp(s, i, ok, p) ==
    /\ Disturb(Cost(ok))
    /\ i \in 1..Len(sockets[s]) /\ sockets[s][i].backfill = "pending"
    /\ sockets' = [sockets EXCEPT ![s][i].backfill = IF ok THEN "done" ELSE "failed"]
    /\ IF ok
       THEN /\ klineCache' = [klineCache EXCEPT ![s] = ExchangeKlines(s, p)]
            /\ emaCache' = [emaCache EXCEPT ![s] =
                               calculateEMA(Closes(ExchangeKlines(s, p)), EMA_PERIOD)]
            /\ cec' = [cec EXCEPT !.shared = @ \ {s}]
            /\ mc' = IF mc.sym = s THEN [mc EXCEPT !.shared = FALSE] ELSE mc
       ELSE UNCHANGED <<klineCache, emaCache, cec, mc>>
    /\ UNCHANGED mlVars
    /\ UNCHANGED <<trainingData, dataFiles, labelTimers, labelLookups, month, pointsMade,
                   realtime, alertSends>>
    /\ UNCHANGED <<eligible, marketVars, now, boot, initialLoadComplete, configVars,
                   trackedPairs, activeWebSockets, reconnectTimers, saw,
                   pendingNewPairAlerts, alertVars, pendingChecks>>

\* The monitoring interval calls checkEMACross(), which awaits the ticker.
CecStart ==
    /\ boot = "run" /\ cec.pc = "idle"
    /\ cec' = [IdleCec EXCEPT !.pc = "pairs"]
    /\ UNCHANGED mlVars
    /\ UNCHANGED <<dataVars, realtime, alertSends>>
    /\ UNCHANGED <<faults, eligible, marketVars, now, boot, initialLoadComplete, configVars,
                   connVars, saw, pendingNewPairAlerts, cacheVars,
                   alertVars, pendingChecks>>

\* checkEMACross from the ticker response to `await Promise.all(klinesPromises)`
CecPairsResp(ok) ==
    /\ Disturb(Cost(ok))
    /\ cec.pc = "pairs"
    /\ trackedPairs' = TrackedAfter(ok)
    /\ pendingNewPairAlerts' = pendingNewPairAlerts \cup NewPairsOf(ok)
    /\ IF PairsOf(ok) = {}
       THEN cec' = IdleCec /\ AfterCheck
       ELSE /\ cec' = [IdleCec EXCEPT !.pc = "klines", !.pairs = PairsOf(ok),
                                      !.waiting = PairsOf(ok)]
            /\ UNCHANGED <<boot, saw, initialLoadComplete>>
    /\ UNCHANGED mlVars
    /\ UNCHANGED <<dataVars, realtime, alertSends>>
    /\ UNCHANGED <<eligible, marketVars, now, configVars, sockets, activeWebSockets,
                   reconnectTimers, cacheVars, alertVars, pendingChecks>>

\* checkEMACross: the crossover checks its loop over `results` starts
CecChecks(results) ==
    {CheckArgs(p, results[p], calculateEMA(Closes(results[p]), EMA_PERIOD)) :
       p \in {q \in cec.pairs :
                /\ Len(results[q]) >= EMA_PERIOD
                /\ Len(calculateEMA(Closes(results[q]), EMA_PERIOD)) >= 2}}

\* checkEMACross: getKlines(pair) settles; after the last one the loop over
\* `results` runs.  The array getKlines returns is the one it put in klineCache.
CecKlinesResp(s, ok, p) ==
    /\ Disturb(Cost(ok))
    /\ cec.pc = "klines" /\ s \in cec.waiting
    /\ IF ok
       THEN /\ klineCache' = [klineCache EXCEPT ![s] = ExchangeKlines(s, p)]
            /\ emaCache' = [emaCache EXCEPT ![s] =
                               calculateEMA(Closes(ExchangeKlines(s, p)), EMA_PERIOD)]
       ELSE UNCHANGED <<klineCache, emaCache>>
    /\ LET results == [cec.results EXCEPT ![s] = IF ok THEN ExchangeKlines(s, p) ELSE <<>>]
           shared == IF ok THEN cec.shared \cup {s} ELSE cec.shared
       IN  IF cec.waiting = {s}
           THEN /\ checkForCrossover(CecChecks(results))
                /\ cec' = IdleCec
                /\ AfterCheck
           ELSE /\ cec' = [cec EXCEPT !.waiting = @ \ {s}, !.results = results,
                                      !.shared = shared]
                /\ UNCHANGED <<boot, saw, initialLoadComplete, alertVars, pendingChecks,
                               alertSends>>
    /\ mc' = IF ok /\ mc.sym = s THEN [mc EXCEPT !.shared = FALSE] ELSE mc
    /\ UNCHANGED mlVars
    /\ UNCHANGED <<trainingData, dataFiles, labelTimers, labelLookups, month, pointsMade,
                   realtime>>
    /\ UNCHANGED <<eligible, marketVars, now, configVars, connVars,
                   pendingNewPairAlerts>>

\* processClosedCandle: the cached candles after the push and the trim
KlinesAfterClose(s, c) == SliceLast(Append(klineCache[s], c), EMA_PERIOD * 2)

\* processClosedCandle: the crossover check it starts, if any
ClosedCandleChecks(s, c) ==
    LET klines == KlinesAfterClose(s, c)
        ema == calculateEMA(Closes(klines), EMA_PERIOD)
    IN  IF Len(ema) >= 2 THEN {CheckArgs(s, klines, ema)} ELSE {}

\* processClosedCandle: `klines.length >= 30 && ML_ENABLED`
Collects(s, c) == ML_ENABLED /\ Len(KlinesAfterClose(s, c)) >= ML_MIN_KLINES

\* processClosedCandle: the dataPoint object it creates (label and
\* future_price_change null).  `ema` is emaValues[emaValues.length - 1] and
\* ema_diff is computed from it: with an empty emaValues the one is undefined
\* and the other NaN, which `numeric` records.  The indicator module pads
\* rsi, macd and the bands with defaults, so these are always numbers.
NewDataPoint(s, c) ==
    [id |-> pointsMade[s] + 1, timestamp |-> c.time, close |-> c.close,
     numeric |-> calculateEMA(Closes(KlinesAfterClose(s, c)), EMA_PERIOD) # <<>>,
     labelled |-> FALSE, future |-> 0]

\* JSON.stringify of a data point: an undefined field is left out and NaN is
\* written as null
Stored(pt) ==
    [timestamp |-> pt.timestamp, close |-> pt.close, numeric |-> pt.numeric,
     labelled |-> pt.labelled, future |-> pt.future]

\* trainingData.get(symbol) after processClosedCandle
TrainingAfterClose(s, c) ==
    IF Collects(s, c)
    THEN SliceLast(Append(trainingData[s], NewDataPoint(s, c)), TRAINING_CAP)
    ELSE trainingData[s]

\* What a file holds that is not valid JSON (its text broke off within a
\* record, say): JSON.parse of such a file throws
Unparseable == [timestamp |-> 0 - 1, close |-> 0, numeric |-> FALSE,
                labelled |-> FALSE, future |-> 0]

Parses(file) == \A i \in 1..Len(file) : file[i] # Unparseable

\* saveDataPoint(symbol, dataPoint): the files after it appended the point to
\* the file of the current month, starting afresh when that file does not parse
saveDataPoint(s, pt) ==
    [dataFiles EXCEPT ![s][month] =
        Append(IF Parses(@) THEN @ ELSE <<>>, Stored(pt))]

\* the array startManualDataCollection iterates is the cached one until
\* processClosedCandle replaces the cache by a slice
McAfterClose(s, c) ==
    IF mc.shared /\ mc.sym = s
    THEN [mc EXCEPT !.klines = Append(@, c),
                    !.shared = Len(klineCache[s]) + 1 <= EMA_PERIOD * 2]
    ELSE mc

\* processClosedCandle(symbol, kline); the caller says what becomes of mc
processClosedCandle(s, c) ==
    /\ klineCache' = [klineCache EXCEPT ![s] = KlinesAfterClose(s, c)]
    /\ emaCache' = [emaCache EXCEPT ![s] =
                       calculateEMA(Closes(KlinesAfterClose(s, c)), EMA_PERIOD)]
    /\ cec' = IF s \in cec.shared
              THEN [cec EXCEPT !.results[s] = Append(@, c),
                               !.shared = IF Len(klineCache[s]) + 1 > EMA_PERIOD * 2
                                          THEN @ \ {s} ELSE @]
              ELSE cec
    /\ trainingData' = [trainingData EXCEPT ![s] = TrainingAfterClose(s, c)]
    /\ dataFiles' = IF Collects(s, c) THEN saveDataPoint(s, NewDataPoint(s, c))
                                      ELSE dataFiles
    /\ labelTimers' = IF Collects(s, c)
                      THEN [labelTimers EXCEPT ![s] = Append(@, c.time)]
                      ELSE labelTimers
    /\ pointsMade' = IF Collects(s, c)
                     THEN [pointsMade EXCEPT ![s] = @ + 1]
                     ELSE pointsMade
    /\ checkForCrossover(ClosedCandleChecks(s, c))

\* The exchange closes the candle of a symbol at price p and the open transport delivers
\* the kline message with x = true: processClosedCandle.
WsClosedCandleMsg(s, i, p) ==
    /\ i \in 1..Len(sockets[s]) /\ sockets[s][i].readyState = "OPEN"
    /\ Len(mktHist[s]) < MaxCandles
    /\ mktHist' = [mktHist EXCEPT ![s] = Append(@, p)]
    /\ processClosedCandle(s, [time |-> Len(mktHist[s]) + 1, close |-> p])
    /\ mc' = McAfterClose(s, [time |-> Len(mktHist[s]) + 1, close |-> p])
    /\ UNCHANGED mlVars
    /\ UNCHANGED <<labelLookups, month, realtime>>
    /\ UNCHANGED <<faults, eligible, now, boot, initialLoadComplete, configVars,
                   connVars, saw, pendingNewPairAlerts>>

\* The exchange closes a candle while no transport of the symbol is open.
MarketCloseUnobserved(s, p) ==
    /\ s \in eligible
    /\ \A i \in 1..Len(sockets[s]) : sockets[s][i].readyState # "OPEN"
    /\ Len(mktHist[s]) < MaxCandles
    /\ mktHist' = [mktHist EXCEPT ![s] = Append(@, p)]
    /\ UNCHANGED mlVars
    /\ UNCHANGED <<dataVars, realtime, alertSends>>
    /\ UNCHANGED <<faults, eligible, now, boot, initialLoadComplete, configVars,
                   connVars, saw, cec, pendingNewPairAlerts,
                   cacheVars, alertVars, pendingChecks>>

Tick ==
    /\ now < MaxTime
    /\ now' = now + 1
    /\ UNCHANGED mlVars
    /\ UNCHANGED <<dataVars, realtime, alertSends>>
    /\ UNCHANGED <<faults, eligible, marketVars, boot, initialLoadComplete, configVars,
                   connVars, saw, cec, pendingNewPairAlerts,
                   cacheVars, alertVars, pendingChecks>>

\* ----------------------------------------------------------- training data
\* Array.prototype.findIndex(d => d.timestamp === timestamp), 0 for -1
RECURSIVE FindTimestamp(_, _, _)
FindTimestamp(data, ts, i) ==
    IF i > Len(data) THEN 0
    ELSE IF data[i].timestamp = ts THEN i
    ELSE FindTimestamp(data, ts, i + 1)

\* updateFuturePriceChange: ((currentPrice - originalPrice) / originalPrice * 100),
\* in whole percent
PriceChange(currentPrice, originalPrice) ==
    ((currentPrice - originalPrice) * 100) \div originalPrice

\* A timer armed by processClosedCandle fires (equal delays fire in the order
\* they were armed): updateFuturePriceChange(symbol, timestamp) up to
\* `await getCurrentPrice(symbol)`.  The delay is 24 hours and a manual
\* collection lasts minutes, so no timer fires during the collection that
\* armed it: timers are taken to fire between collections.
LabelTimerFires(s) ==
    /\ labelTimers[s] # <<>>
    /\ mc.pc = "idle"
    /\ Len(labelLookups) < MaxLookups
    /\ labelTimers' = [labelTimers EXCEPT ![s] = Tail(@)]
    /\ LET ts == Head(labelTimers[s])
           k == FindTimestamp(trainingData[s], ts, 1)
       IN  labelLookups' =
             IF k = 0 THEN labelLookups
             ELSE Append(labelLookups,
                         [sym |-> s, timestamp |-> ts, id |-> trainingData[s][k].id,
                          close |-> trainingData[s][k].close])
    /\ UNCHANGED mlVars
    /\ UNCHANGED <<trainingData, dataFiles, month, pointsMade, mc, realtime, alertSends>>
    /\ UNCHANGED <<faults, eligible, marketVars, now, boot, initialLoadComplete, configVars,
                   connVars, saw, cec, pendingNewPairAlerts,
                   cacheVars, alertVars, pendingChecks>>

\* the data point object updateFuturePriceChange holds, after it set
\* future_price_change and label
Labelled(pt, change) == [pt EXCEPT !.labelled = TRUE, !.future = change]

\* updateStoredDataPoint(symbol, timestamp, priceChange): the first file (in
\* name order) that holds the timestamp gets its first such entry updated.
\* JSON.parse of a file on the way that does not parse throws into the catch
\* of the function, which returns false.
RECURSIVE updateStoredDataPoint(_, _, _, _)
updateStoredDataPoint(files, ts, change, m) ==
    IF m > MaxMonth \/ ~Parses(files[m]) THEN files
    ELSE LET k == FindTimestamp(files[m], ts, 1)
         IN  IF k # 0
             THEN [files EXCEPT ![m][k] = Labelled(@, change)]
             ELSE updateStoredDataPoint(files, ts, change, m + 1)

\* The text of an existing file of symbol s is damaged on the disk.
FileCorrupted(s, m) ==
    /\ Disturb(1)
    /\ dataFiles[s][m] # <<>> /\ Parses(dataFiles[s][m])
    /\ dataFiles' = [dataFiles EXCEPT ![s][m] = <<Unparseable>>]
    /\ UNCHANGED mlVars
    /\ UNCHANGED <<trainingData, labelTimers, labelLookups, month, pointsMade, mc,
                   realtime, alertSends>>
    /\ UNCHANGED <<eligible, marketVars, now, boot, initialLoadComplete, configVars,
                   connVars, saw, cec, pendingNewPairAlerts,
                   cacheVars, alertVars, pendingChecks>>

\* getCurrentPrice settles for the k-th waiting updateFuturePriceChange: on
\* failure it throws and the catch logs, otherwise the point found before the
\* await and the stored point are written.
LabelLookupResp(k, ok, p) ==
    /\ Disturb(Cost(ok))
    /\ k \in 1..Len(labelLookups)
    /\ labelLookups' = [i \in 1..(Len(labelLookups) - 1) |->
                          IF i < k THEN labelLookups[i] ELSE labelLookups[i + 1]]
    /\ LET l == labelLookups[k]
           change == PriceChange(p, l.close)
       IN  IF ok
           THEN /\ trainingData' = [trainingData EXCEPT ![l.sym] =
                      [i \in 1..Len(@) |->
                         IF @[i].id = l.id THEN Labelled(@[i], change) ELSE @[i]]]
                /\ dataFiles' = [dataFiles EXCEPT ![l.sym] =
                      updateStoredDataPoint(@, l.timestamp, change, 1)]
           ELSE UNCHANGED <<trainingData, dataFiles>>
    /\ UNCHANGED mlVars
    /\ UNCHANGED <<labelTimers, month, pointsMade, mc, realtime, alertSends>>
    /\ UNCHANGED <<eligible, marketVars, now, boot, initialLoadComplete, configVars,
                   connVars, saw, cec, pendingNewPairAlerts,
                   cacheVars, alertVars, pendingChecks>>

\* saveTrainingData(): the files after it wrote, for every symbol that has
\* data in memory, the whole array to the file of the current month
FilesAfterSave ==
    [s \in Symbols |->
       IF trainingData[s] = <<>> THEN dataFiles[s]
       ELSE [dataFiles[s] EXCEPT ![month] =
               [i \in 1..Len(trainingData[s]) |-> Stored(trainingData[s][i])]]]

\* The 30-minute interval initialize() arms calls saveTrainingData().
saveTrainingData ==
    /\ boot = "run"
    /\ dataFiles' = FilesAfterSave
    /\ UNCHANGED mlVars
    /\ UNCHANGED <<trainingData, labelTimers, labelLookups, month, pointsMade, mc,
                   realtime, alertSends>>
    /\ UNCHANGED <<faults, eligible, marketVars, now, boot, initialLoadComplete, configVars,
                   connVars, saw, cec, pendingNewPairAlerts,
                   cacheVars, alertVars, pendingChecks>>

\* loadTrainingData: the contents of a symbol's month files, in the order of
\* their names, concatenated; a file that does not parse is logged and skipped
RECURSIVE ConcatFiles(_, _)
ConcatFiles(files, m) ==
    IF m > MaxMonth THEN <<>>
    ELSE (IF Parses(files[m]) THEN files[m] ELSE <<>>) \o ConcatFiles(files, m + 1)

\* ml_data_collector.js, getSymbolData(symbol): the files of the symbol
\* parsed and concatenated inside one try, whose catch returns []
AllParse(files) == \A m \in Months : Parses(files[m])

getSymbolData(s) ==
    /\ answer' = [fn |-> "getSymbolData", sym |-> s, ok |-> AllParse(dataFiles[s]),
                  count |-> IF AllParse(dataFiles[s])
                            THEN Len(ConcatFiles(dataFiles[s], 1)) ELSE 0]
    /\ UNCHANGED <<storeVars, modelCache, jobs, runs>>
    /\ UNCHANGED <<faults, eligible, marketVars, now, boot, initialLoadComplete,
                   configVars, connVars, saw, cec, pendingNewPairAlerts, cacheVars,
                   alertVars, pendingChecks, dataVars, realtime, alertSends>>

\* loadTrainingData: the array it sets for a symbol.  The parsed objects are
\* new ones, told apart from the points collected later by ids below zero.
LoadedPoints(s) ==
    LET all == ConcatFiles(dataFiles[s], 1)
    IN  [i \in 1..Len(all) |->
           [id |-> 0 - i, timestamp |-> all[i].timestamp, close |-> all[i].close,
            numeric |-> all[i].numeric, labelled |-> all[i].labelled,
            future |-> all[i].future]]

\* trainingData after loadTrainingData()
loadTrainingData == [s \in Symbols |-> LoadedPoints(s)]

\* The process is stopped and started again (SIGINT handler, or the process
\* manager's autorestart): timers, transports and maps are gone, settings.json
\* and the data files remain, and initialize() runs up to the await of its
\* first check: loadSettings, then loadTrainingData when ML is enabled.
Restart ==
    /\ Disturb(1)
    /\ boot = "run"
    /\ boot' = "check"
    /\ initialLoadComplete' = FALSE
    /\ trackedPairs' = {}
    /\ sockets' = [s \in Symbols |-> <<>>]
    /\ activeWebSockets' = [s \in Symbols |-> 0]
    /\ reconnectTimers' = [s \in Symbols |-> 0]
    /\ saw' = IdleSaw
    /\ cec' = [IdleCec EXCEPT !.pc = "pairs"]
    /\ pendingNewPairAlerts' = {}
    /\ klineCache' = [s \in Symbols |-> <<>>]
    /\ emaCache' = [s \in Symbols |-> <<>>]
    /\ coinStates' = [s \in Symbols |-> "none"]
    /\ lastAlerts' = [s \in Symbols |-> 0]
    /\ pendingChecks' = {}
    /\ realtime' = [s \in Symbols |-> NoRealtime]
    /\ alertSends' = {}
    /\ trainingData' = IF ML_ENABLED THEN loadTrainingData
                                     ELSE [s \in Symbols |-> <<>>]
    /\ labelTimers' = [s \in Symbols |-> <<>>]
    /\ labelLookups' = <<>>
    /\ mc' = IdleMc
    /\ modelCache' = <<>>
    /\ answer' = NoAnswer
    /\ jobs' = [k \in JobSlots |-> FreeJob]
    /\ runs' = [t \in Triggers |-> IdleRun]
    /\ UNCHANGED <<eligible, marketVars, now, configVars, alerts, dataFiles,
                   month, pointsMade, storeVars>>

\* The wall clock enters the next calendar month.
MonthRollover ==
    /\ month < MaxMonth
    /\ month' = month + 1
    /\ UNCHANGED mlVars
    /\ UNCHANGED <<trainingData, dataFiles, labelTimers, labelLookups, pointsMade, mc,
                   realtime, alertSends>>
    /\ UNCHANGED <<faults, eligible, marketVars, now, boot, initialLoadComplete, configVars,
                   connVars, saw, cec, pendingNewPairAlerts,
                   cacheVars, alertVars, pendingChecks>>

\* ------------------------------------------------ manual data collection
\* The operator sends /collectdata: startManualDataCollection up to
\* `await getFuturesPairs()`.
McStart ==
    /\ Disturb(1)
    /\ boot = "run" /\ mc.pc = "idle"
    /\ \A s \in Symbols : pointsMade[s] + 2 * MANUAL_WINDOW <= MaxPoints
    /\ mc' = [IdleMc EXCEPT !.pc = "pairs"]
    /\ UNCHANGED mlVars
    /\ UNCHANGED <<trainingData, dataFiles, labelTimers, labelLookups, month, pointsMade,
                   realtime, alertSends>>
    /\ UNCHANGED <<eligible, marketVars, now, boot, initialLoadComplete, configVars,
                   connVars, saw, cec, pendingNewPairAlerts,
                   cacheVars, alertVars, pendingChecks>>

\* startManualDataCollection: the ticker settles; with no pair it returns,
\* otherwise it awaits getKlines of the first pair.
McPairsResp(ok) ==
    /\ Disturb(Cost(ok))
    /\ mc.pc = "pairs"
    /\ trackedPairs' = TrackedAfter(ok)
    /\ pendingNewPairAlerts' = pendingNewPairAlerts \cup NewPairsOf(ok)
    /\ mc' = IF PairsOf(ok) = {} THEN IdleMc
             ELSE [IdleMc EXCEPT !.pc = "klines", !.todo = PairsOf(ok)]
    /\ UNCHANGED mlVars
    /\ UNCHANGED <<trainingData, dataFiles, labelTimers, labelLookups, month, pointsMade,
                   realtime, alertSends>>
    /\ UNCHANGED <<eligible, marketVars, now, boot, initialLoadComplete, configVars,
                   sockets, activeWebSockets, reconnectTimers, saw, cec,
                   cacheVars, alertVars, pendingChecks>>

\* `for (const symbol of pairs)`: the pair the loop is at
McSym == SymOrder[CHOOSE j \in 1..Len(SymOrder) :
                    /\ SymOrder[j] \in mc.todo
                    /\ \A k \in 1..Len(SymOrder) : SymOrder[k] \in mc.todo => j <= k]

\* startManualDataCollection moves to the next pair; after the last one it
\* calls saveTrainingData()
McAdvance(m) ==
    IF m.todo = {McSym}
    THEN mc' = IdleMc /\ dataFiles' = FilesAfterSave
    ELSE /\ mc' = [IdleMc EXCEPT !.pc = "klines", !.todo = m.todo \ {McSym}]
         /\ dataFiles' = dataFiles

\* startManualDataCollection: getKlines(symbol) settles (with [] on failure);
\* a pair with fewer than 30 candles is skipped, otherwise the loop over the
\* returned array, which is the cached one, begins.
McKlinesResp(ok, p) ==
    /\ Disturb(Cost(ok))
    /\ mc.pc = "klines"
    /\ IF ok
       THEN /\ klineCache' = [klineCache EXCEPT ![McSym] = ExchangeKlines(McSym, p)]
            /\ emaCache' = [emaCache EXCEPT ![McSym] =
                               calculateEMA(Closes(ExchangeKlines(McSym, p)), EMA_PERIOD)]
            /\ cec' = [cec EXCEPT !.shared = @ \ {McSym}]
       ELSE UNCHANGED <<klineCache, emaCache, cec>>
    /\ IF ok /\ Len(ExchangeKlines(McSym, p)) >= ML_MIN_KLINES
       THEN /\ mc' = [mc EXCEPT !.pc = "loop", !.sym = McSym,
                                !.klines = ExchangeKlines(McSym, p), !.i = 1,
                                !.shared = TRUE]
            /\ dataFiles' = dataFiles
       ELSE McAdvance(mc)
    /\ UNCHANGED mlVars
    /\ UNCHANGED <<trainingData, labelTimers, labelLookups, month, pointsMade,
                   realtime, alertSends>>
    /\ UNCHANGED <<eligible, marketVars, now, boot, initialLoadComplete, configVars,
                   connVars, saw, pendingNewPairAlerts, alertVars, pendingChecks>>

\* startManualDataCollection is inside its loop over the array: every
\* `await processClosedCandle` there resumes before the event loop takes the
\* next event
McInLoop == mc.pc = "loop" /\ mc.i <= Len(mc.klines)

\* One iteration of `for (let i = 0; i < klines.length; i++)`: an old candle
\* is skipped, any other is handed to processClosedCandle.
McLoopStep ==
    /\ mc.pc = "loop" /\ mc.i <= Len(mc.klines)
    /\ IF mc.i <= Len(mc.klines) - MANUAL_WINDOW
       THEN /\ mc' = [mc EXCEPT !.i = @ + 1]
            /\ UNCHANGED <<cacheVars, cec, trainingData, dataFiles, labelTimers,
                           pointsMade, alertVars, pendingChecks, alertSends>>
       ELSE /\ processClosedCandle(mc.sym, mc.klines[mc.i])
            /\ mc' = [McAfterClose(mc.sym, mc.klines[mc.i]) EXCEPT !.i = @ + 1]
    /\ UNCHANGED mlVars
    /\ UNCHANGED <<labelLookups, month, realtime>>
    /\ UNCHANGED <<faults, eligible, marketVars, now, boot, initialLoadComplete, configVars,
                   connVars, saw, pendingNewPairAlerts>>

\* The loop over the array is over and the 500 ms pause has passed.
McLoopEnd ==
    /\ mc.pc = "loop" /\ mc.i > Len(mc.klines)
    /\ McAdvance(mc)
    /\ UNCHANGED mlVars
    /\ UNCHANGED <<trainingData, labelTimers, labelLookups, month, pointsMade,
                   realtime, alertSends>>
    /\ UNCHANGED <<faults, eligible, marketVars, now, boot, initialLoadComplete, configVars,
                   connVars, saw, cec, pendingNewPairAlerts,
                   cacheVars, alertVars, pendingChecks>>

\* ------------------------------------------------------- in-progress updates
\* processRealtimeCandle storing the price of the update in the last candle
KlinesAfterRealtimeReplaceLast(s, p) ==
    IF klineCache[s] = <<>> THEN klineCache[s]
    ELSE [klineCache[s] EXCEPT ![Len(klineCache[s])].close = p]

\* klineCache.get(symbol) after processRealtimeCandle: it only reads the cache
KlinesAfterRealtime(s, p) == klineCache[s]

\* processRealtimeCandle: prevState and currentState
RealtimeState(price, ema) == IF price > ema THEN "above" ELSE "below"

\* processRealtimeCandle(symbol, kline, false)
processRealtimeCandle(s, p) ==
    /\ klineCache' = [klineCache EXCEPT ![s] = KlinesAfterRealtime(s, p)]
    /\ realtime' =
         IF klineCache[s] = <<>> \/ Len(emaCache[s]) < 2
         THEN realtime
         ELSE [realtime EXCEPT ![s] =
                 [prevState |-> RealtimeState(Last(klineCache[s]).close, Last(emaCache[s])),
                  currentState |-> RealtimeState(p, Last(emaCache[s])),
                  price |-> p]]
    /\ UNCHANGED mlVars
    /\ UNCHANGED <<emaCache, alertVars, pendingChecks, alertSends, dataVars>>

\* The open transport delivers a kline message with x = false at price p.
WsRealtimeMsg(s, i, p) ==
    /\ i \in 1..Len(sockets[s]) /\ sockets[s][i].readyState = "OPEN"
    /\ processRealtimeCandle(s, p)
    /\ UNCHANGED mlVars
    /\ UNCHANGED <<faults, eligible, marketVars, now, boot, initialLoadComplete, configVars,
                   connVars, saw, cec, pendingNewPairAlerts>>

\* ------------------------------------------------- model versions on disk
HasVersion(s, id) == \E i \in 1..Len(versionDirs[s]) : versionDirs[s][i].id = id

VersionOf(s, id) ==
    versionDirs[s][CHOOSE i \in 1..Len(versionDirs[s]) : versionDirs[s][i].id = id]

\* fs.existsSync(latestPath), which follows a link
LatestExists(s) ==
    \/ latest[s].kind = "dir"
    \/ latest[s].kind = "link" /\ HasVersion(s, latest[s].target)

\* The four files reached through models/<symbol>/latest
LatestFiles(s) ==
    IF latest[s].kind = "link"
    THEN LET v == IF HasVersion(s, latest[s].target)
                  THEN VersionOf(s, latest[s].target) ELSE NoVersion
         IN  [model |-> v, hyperparams |-> v, features |-> v, performance |-> v]
    ELSE [model |-> latest[s].model, hyperparams |-> latest[s].hyperparams,
          features |-> latest[s].features, performance |-> latest[s].performance]

\* predictPriceChange: the paths it reads, `latest` first and the files of the
\* symbol's directory otherwise (hyperparamsPath stays undefined there)
ResolvedFiles(s) ==
    IF LatestExists(s) THEN LatestFiles(s)
    ELSE [model |-> rootFiles[s].model, hyperparams |-> NoVersion,
          features |-> rootFiles[s].features, performance |-> rootFiles[s].performance]

\* saveModelVersion: mkdirSync(latestPath) of the fallback throws when the
\* name is taken by a link whose target is gone
SaveThrows(s) == latest[s].kind = "link" /\ ~LatestExists(s)

\* The fallback of saveModelVersion copying three of the four files
LatestAfterSaveNoHyperparams(s, v, linkok) ==
    IF latest[s].kind # "dir" /\ linkok
    THEN [NoLatest EXCEPT !.kind = "link", !.target = v.id]
    ELSE [NoLatest EXCEPT !.kind = "dir", !.model = v, !.features = v,
                          !.performance = v]

\* saveModelVersion: `latest` after unlinkSync (which removes a link and fails
\* on a directory), symlinkSync (linkok: the platform lets it succeed) and the
\* fallback that copies the four files into a directory named latest
LatestAfterSave(s, v, linkok) ==
    IF latest[s].kind # "dir" /\ linkok
    THEN [NoLatest EXCEPT !.kind = "link", !.target = v.id]
    ELSE [NoLatest EXCEPT !.kind = "dir", !.model = v, !.hyperparams = v,
                          !.features = v, !.performance = v]

\* saveModelVersion(symbol, model, hyperparams, performance, features): the
\* version directory with its four files, `latest`, and the copies in the
\* symbol's directory; v is what the trained network and its metrics are
saveModelVersion(s, v, linkok) ==
    /\ versionsMade' = versionsMade + 1
    /\ versionDirs' = [versionDirs EXCEPT ![s] = Append(@, v)]
    /\ IF SaveThrows(s)
       THEN UNCHANGED <<latest, rootFiles>>
       ELSE /\ latest' = [latest EXCEPT ![s] = LatestAfterSave(s, v, linkok)]
            /\ rootFiles' = [rootFiles EXCEPT ![s] =
                               [model |-> v, features |-> v, performance |-> v]]

\* The sort of pruneOldModelVersions oldest first
RankOldestFirst(dirs, v) == 1 + Cardinality({i \in 1..Len(dirs) : dirs[i].id < v.id})

\* pruneOldModelVersions: position of a version directory after the sort by
\* birthtime, newest first
Rank(dirs, v) == 1 + Cardinality({i \in 1..Len(dirs) : dirs[i].id > v.id})

\* A pruning that keeps the directories listed first
pruneKeepsListedFirst(dirs, keepCount) ==
    IF Len(dirs) <= keepCount THEN dirs ELSE SubSeq(dirs, 1, keepCount)

\* pruneOldModelVersions(symbol, keepCount): the version directories left
pruneOldModelVersions(dirs, keepCount) ==
    IF Len(dirs) <= keepCount THEN dirs
    ELSE SelectSeq(dirs, LAMBDA v : Rank(dirs, v) <= keepCount)

\* ------------------------------------------------------------ predictions
\* validateFeatures(features)
validateFeatures(f) == f = "numeric"

CacheHas(s) == \E i \in 1..Len(modelCache) : modelCache[i].sym = s

CachedNet(s) ==
    modelCache[CHOOSE i \in 1..Len(modelCache) : modelCache[i].sym = s].net

CacheWithout(s) == SelectSeq(modelCache, LAMBDA e : e.sym # s)

\* predictPriceChange: the cache after `if (modelCache.size > 50)` deleted the
\* first key and the loaded network was set
CacheAfterLoad(s, net) ==
    Append(IF Len(modelCache) > CACHE_LIMIT THEN Tail(modelCache) ELSE modelCache,
           [sym |-> s, net |-> net])

\* predictPriceChange: the network it runs
NetUsed(s) == IF CacheHas(s) THEN CachedNet(s) ELSE ResolvedFiles(s).model

\* `featureNames();` where featureNames is the array parsed from
\* features.json: the call of a value that is no function throws a TypeError
FeatureNamesCallThrows == TRUE

\* `performance.stdDev || 1.0`, 1.0 also without performance.json
StdDevOf(perf) == IF perf.id = 0 \/ perf.stdDev = 0 THEN 1 ELSE perf.stdDev

Abs(x) == IF x < 0 THEN 0 - x ELSE x
Min(a, b) == IF a < b THEN a ELSE b
Max(a, b) == IF a > b THEN a ELSE b

\* predictPriceChange: the object it returns; the bounds in hundredths of a
\* percent, `Math.min(100, Math.max(0, (Math.abs(prediction) / (stdDev + 0.5)) * 50))`
\* rounded down
PredictionResult(net, perf) ==
    [prediction |-> net.out,
     lowerBound |-> 100 * net.out - 196 * StdDevOf(perf),
     upperBound |-> 100 * net.out + 196 * StdDevOf(perf),
     confidenceScore |->
        Min(100, Max(0, (Abs(net.out) * 100) \div (2 * StdDevOf(perf) + 1))),
     net |-> net.id, performance |-> perf.id]

NullResult == [prediction |-> 0, lowerBound |-> 0, upperBound |-> 0,
               confidenceScore |-> 0, net |-> 0, performance |-> 0]

\* predictPriceChange(symbol, features): it has no await, so the call is one
\* step.  null for invalid features and for a missing model or feature file;
\* otherwise the network is taken from or put into the cache, and the call of
\* featureNames throws into the catch that returns null.
predictPriceChange(s, f) ==
    /\ LET files == ResolvedFiles(s)
           found == validateFeatures(f) /\ files.model.id # 0 /\ files.features.id # 0
           done == found /\ ~FeatureNamesCallThrows
       IN  /\ modelCache' = IF found /\ ~CacheHas(s)
                            THEN CacheAfterLoad(s, files.model) ELSE modelCache
           /\ answer' = [fn |-> "predictPriceChange", sym |-> s, features |-> f,
                         found |-> found, ok |-> done,
                         value |-> IF done
                                   THEN PredictionResult(NetUsed(s), files.performance)
                                   ELSE NullResult]
    /\ UNCHANGED <<storeVars, jobs, runs>>
    /\ UNCHANGED <<faults, eligible, marketVars, now, boot, initialLoadComplete,
                   configVars, connVars, saw, cec, pendingNewPairAlerts, cacheVars,
                   alertVars, pendingChecks, dataVars, realtime, alertSends>>

\* getModelPerformance(symbol): performance.json of `latest`, or of the
\* symbol's directory, or null
getModelPerformance(s) ==
    /\ answer' = [fn |-> "getModelPerformance", sym |-> s,
                  ok |-> ResolvedFiles(s).performance.id # 0,
                  value |-> ResolvedFiles(s).performance]
    /\ UNCHANGED <<storeVars, modelCache, jobs, runs>>
    /\ UNCHANGED <<faults, eligible, marketVars, now, boot, initialLoadComplete,
                   configVars, connVars, saw, cec, pendingNewPairAlerts, cacheVars,
                   alertVars, pendingChecks, dataVars, realtime, alertSends>>

\* Orders in which fs.readdirSync may list n entries (it promises none)
Orders(n) == {o \in [1..n -> 1..n] : \A i, j \in 1..n : i # j => o[i] # o[j]}

RECURSIVE WeightedSum(_, _)
WeightedSum(preds, i) ==
    IF i > Len(preds) THEN 0
    ELSE preds[i].out * (Len(preds) - i + 1) + WeightedSum(preds, i + 1)

\* ensemblePrediction(symbol, features): the version directories as readdirSync
\* lists them (order o), the first five of them, one prediction of each, the
\* i-th of n weighted n - i
ensemblePrediction(s, f, o) ==
    /\ o \in Orders(Len(versionDirs[s]))
    /\ LET listed == [i \in 1..Len(versionDirs[s]) |-> versionDirs[s][o[i]]]
           used == SubSeq(listed, 1, Min(ENSEMBLE_SIZE, Len(listed)))
           n == Len(used)
           done == validateFeatures(f) /\ n > 0
       IN  answer' = [fn |-> "ensemblePrediction", sym |-> s, features |-> f,
                      ok |-> done,
                      used |-> IF done THEN [i \in 1..n |-> used[i].id] ELSE <<>>,
                      weights |-> IF done THEN [i \in 1..n |-> n - i + 1] ELSE <<>>,
                      value |-> IF done
                                THEN WeightedSum(used, 1) \div ((n * (n + 1)) \div 2)
                                ELSE 0]
    /\ UNCHANGED <<storeVars, modelCache, jobs, runs>>
    /\ UNCHANGED <<faults, eligible, marketVars, now, boot, initialLoadComplete,
                   configVars, connVars, saw, cec, pendingNewPairAlerts, cacheVars,
                   alertVars, pendingChecks, dataVars, realtime, alertSends>>

\* --------------------------------------------------------------- training
\* The functions node.js takes from './ml_model' under the names
\* trainModelForSymbol and predictPriceChange are the ones ml_alternative.js
\* defines and exports under these names.
HasFreeJob == \E k \in JobSlots : jobs[k].pc = "free"

FreeSlot == CHOOSE k \in JobSlots : jobs[k].pc = "free"

Running == {k \in JobSlots : jobs[k].pc # "free"}

\* trainModelForSymbol(symbol) called by t, up to `await loadSymbolData(symbol)`;
\* with checkMemoryUsage() false (memok = FALSE) it returns null
JobsAfterCall(s, memok, t) ==
    IF memok
    THEN [jobs EXCEPT ![FreeSlot] = [pc |-> "load", sym |-> s, trial |-> 0,
                                     best |-> FALSE, run |-> t]]
    ELSE jobs

\* The training loops of node.js: the loop that awaited the call counts the
\* result; trainAllModels awaits a progress message at every fifth trained
\* model; then `await new Promise(resolve => setTimeout(resolve, 5000))`
RunAfterResult(run, t, result) ==
    IF result
    THEN [run EXCEPT !.trainedCount = @ + 1,
                     !.pc = IF t # "interval"
                               /\ (run.trainedCount + 1) % PROGRESS_EVERY = 0
                            THEN "progress" ELSE "delay"]
    ELSE [run EXCEPT !.failedCount = @ + 1, !.pc = "delay"]

RunsAfterJob(t, result) ==
    IF t = "none" THEN runs
    ELSE [runs EXCEPT ![t] = RunAfterResult(runs[t], t, result)]

\* findOptimalHyperparameters returns bestConfig, the best flag telling whether
\* it is a configuration or still null; trainModelForSymbol goes on with
\* createModel and reads optimalHyperparams.iterations, which throws on null
\* into the catch that returns null
JobAfterSearch(job, best) ==
    IF best THEN [job EXCEPT !.pc = "train", !.best = TRUE] ELSE FreeJob

\* A caller outside node.js (the module's own trainAllModels, a script) calls
\* trainModelForSymbol.
TrainCall(s, memok) ==
    /\ Disturb(Cost(memok))
    /\ HasFreeJob /\ versionsMade + Cardinality(Running) < MaxVersions
    /\ jobs' = JobsAfterCall(s, memok, "none")
    /\ answer' = IF memok THEN answer
                 ELSE [fn |-> "trainModelForSymbol", sym |-> s, ok |-> FALSE]
    /\ UNCHANGED <<storeVars, modelCache, runs>>
    /\ UNCHANGED <<eligible, marketVars, now, boot, initialLoadComplete,
                   configVars, connVars, saw, cec, pendingNewPairAlerts, cacheVars,
                   alertVars, pendingChecks, dataVars, realtime, alertSends>>

\* loadSymbolData settles for job k.  With fewer than 100 rows, or rows that
\* validateTrainingData rejects (enough = FALSE), the call returns null.
\* Otherwise findOptimalHyperparameters starts: its first trial awaits
\* trainAsync, unless checkMemoryUsage() stops the search before it.
TrainLoaded(k, enough, memok) ==
    /\ Disturb(Cost(enough) + Cost(memok))
    /\ jobs[k].pc = "load"
    /\ enough \/ memok
    /\ LET searched == enough /\ ~memok
           job == IF ~enough THEN FreeJob
                  ELSE IF memok THEN [jobs[k] EXCEPT !.pc = "trial", !.trial = 1]
                  ELSE JobAfterSearch(jobs[k], FALSE)
       IN  /\ jobs' = [jobs EXCEPT ![k] = job]
           /\ runs' = IF job.pc = "free" THEN RunsAfterJob(jobs[k].run, FALSE) ELSE runs
           /\ answer' = IF searched
                        THEN [fn |-> "findOptimalHyperparameters",
                              sym |-> jobs[k].sym, ok |-> FALSE]
                        ELSE IF ~enough
                        THEN [fn |-> "trainModelForSymbol", sym |-> jobs[k].sym,
                              ok |-> FALSE]
                        ELSE answer
    /\ UNCHANGED <<storeVars, modelCache>>
    /\ UNCHANGED <<eligible, marketVars, now, boot, initialLoadComplete,
                   configVars, connVars, saw, cec, pendingNewPairAlerts, cacheVars,
                   alertVars, pendingChecks, dataVars, realtime, alertSends>>

\* trainAsync of a trial of job k settles: a failed trial is skipped, a
\* completed one has a score above -Infinity and becomes bestConfig.  After
\* the last trial, or when checkMemoryUsage() stops the loop, the search
\* returns bestConfig.
TrialDone(k, trained, memok) ==
    /\ Disturb(Cost(trained) + Cost(memok))
    /\ jobs[k].pc = "trial"
    /\ LET best == jobs[k].best \/ trained
           over == jobs[k].trial = NUM_TRIALS \/ ~memok
           job == IF over THEN JobAfterSearch(jobs[k], best)
                  ELSE [jobs[k] EXCEPT !.trial = @ + 1, !.best = best]
       IN  /\ jobs' = [jobs EXCEPT ![k] = job]
           /\ runs' = IF job.pc = "free" THEN RunsAfterJob(jobs[k].run, FALSE) ELSE runs
           /\ answer' = IF over
                        THEN [fn |-> "findOptimalHyperparameters",
                              sym |-> jobs[k].sym, ok |-> best]
                        ELSE answer
    /\ UNCHANGED <<storeVars, modelCache>>
    /\ UNCHANGED <<eligible, marketVars, now, boot, initialLoadComplete,
                   configVars, connVars, saw, cec, pendingNewPairAlerts, cacheVars,
                   alertVars, pendingChecks, dataVars, realtime, alertSends>>

\* The final trainAsync of job k settles: on failure the catch returns null;
\* otherwise the metrics are computed, saveModelVersion runs and
\* analyzeFeatureImportance is awaited.
TrainDone(k, trained, out, sd, linkok) ==
    /\ Disturb(Cost(trained))
    /\ jobs[k].pc = "train"
    /\ IF trained
       THEN /\ saveModelVersion(jobs[k].sym,
                                [id |-> versionsMade + 1, out |-> out, stdDev |-> sd],
                                linkok)
            /\ jobs' = [jobs EXCEPT ![k].pc = "analyze"]
            /\ UNCHANGED <<runs, answer>>
       ELSE /\ jobs' = [jobs EXCEPT ![k] = FreeJob]
            /\ runs' = RunsAfterJob(jobs[k].run, FALSE)
            /\ answer' = [fn |-> "trainModelForSymbol", sym |-> jobs[k].sym,
                          ok |-> FALSE]
            /\ UNCHANGED storeVars
    /\ UNCHANGED modelCache
    /\ UNCHANGED <<eligible, marketVars, now, boot, initialLoadComplete,
                   configVars, connVars, saw, cec, pendingNewPairAlerts, cacheVars,
                   alertVars, pendingChecks, dataVars, realtime, alertSends>>

\* analyzeFeatureImportance of job k settles (it catches its own errors):
\* pruneOldModelVersions(symbol), the symbol's entry leaves the cache, and
\* the call returns its result object.
AnalyzeDone(k) ==
    /\ jobs[k].pc = "analyze"
    /\ versionDirs' = [versionDirs EXCEPT ![jobs[k].sym] =
                          pruneOldModelVersions(@, KEEP_COUNT)]
    /\ modelCache' = CacheWithout(jobs[k].sym)
    /\ jobs' = [jobs EXCEPT ![k] = FreeJob]
    /\ runs' = RunsAfterJob(jobs[k].run, TRUE)
    /\ answer' = [fn |-> "trainModelForSymbol", sym |-> jobs[k].sym, ok |-> TRUE]
    /\ UNCHANGED <<latest, rootFiles, versionsMade>>
    /\ UNCHANGED <<faults, eligible, marketVars, now, boot, initialLoadComplete,
                   configVars, connVars, saw, cec, pendingNewPairAlerts, cacheVars,
                   alertVars, pendingChecks, dataVars, realtime, alertSends>>

\* ------------------------------------------------ training loops of node.js
\* `data.filter(d => d.future_price_change !== null).length`
LabelledCount(s) ==
    Cardinality({i \in 1..Len(trainingData[s]) : trainingData[s][i].labelled})

\* symbolsToTrain: the symbols with at least 100 labelled points
symbolsToTrain == SelectSeq(SymOrder, LAMBDA s : LabelledCount(s) >= TRAIN_MIN)

\* The loop `for (const symbol of symbolsToTrain)` skips, without an await,
\* the symbols that no longer have enough labelled points
RECURSIVE Remaining(_)
Remaining(todo) ==
    IF todo = <<>> \/ LabelledCount(Head(todo)) >= TRAIN_MIN THEN todo
    ELSE Remaining(Tail(todo))

\* The loop of run t, in the state run, at the symbols run.todo: every
\* symbol skipped counts as failed; then the call of trainModelForSymbol for
\* the next symbol, awaited (a call that returns null at once counts as
\* failed), or after the last symbol saveTrainingData() and the closing report
RunLoop(t, run, memok) ==
    LET rest == Remaining(run.todo)
        at == [run EXCEPT !.failedCount = @ + Len(run.todo) - Len(rest)]
    IN  IF rest = <<>>
        THEN /\ runs' = [runs EXCEPT ![t] =
                           [at EXCEPT !.pc = "idle", !.todo = <<>>, !.done = TRUE]]
             /\ dataFiles' = FilesAfterSave
             /\ memok
             /\ UNCHANGED jobs
        ELSE /\ HasFreeJob /\ versionsMade + Cardinality(Running) < MaxVersions
             /\ jobs' = JobsAfterCall(Head(rest), memok, t)
             /\ runs' = [runs EXCEPT ![t] =
                           IF memok
                           THEN [at EXCEPT !.pc = "train", !.todo = Tail(rest)]
                           ELSE [at EXCEPT !.pc = "delay", !.todo = Tail(rest),
                                           !.failedCount = @ + 1]]
             /\ UNCHANGED dataFiles

\* The 12-hour interval of scheduleModelTraining fires, or the operator sends
\* /train or presses train_models.  The interval's callback goes straight to
\* its loop; trainAllModels first awaits a message to the chat.
RunStart(t, memok) ==
    /\ Disturb(Cost(memok) + (IF t = "interval" THEN 0 ELSE 1))
    /\ boot = "run" /\ runs[t].pc = "idle"
    /\ IF t = "interval"
       THEN /\ ML_ENABLED
            /\ symbolsToTrain # <<>>
            /\ RunLoop(t, [IdleRun EXCEPT !.todo = symbolsToTrain,
                                          !.total = Len(symbolsToTrain)], memok)
       ELSE /\ memok
            /\ runs' = [runs EXCEPT ![t] = [IdleRun EXCEPT !.pc = "greet"]]
            /\ UNCHANGED <<jobs, dataFiles>>
    /\ UNCHANGED <<storeVars, modelCache, answer>>
    /\ UNCHANGED <<trainingData, labelTimers, labelLookups, month, pointsMade, mc>>
    /\ UNCHANGED <<eligible, marketVars, now, boot, initialLoadComplete,
                   configVars, connVars, saw, cec, pendingNewPairAlerts, cacheVars,
                   alertVars, pendingChecks, realtime, alertSends>>

\* trainAllModels: its first message settles.  A failed send ends the run in
\* the catch; with no symbol to train it ends after a message; otherwise the
\* announcement is awaited.
RunGreeted(t, ok) ==
    /\ Disturb(Cost(ok))
    /\ runs[t].pc = "greet"
    /\ runs' = [runs EXCEPT ![t] =
                  IF ok /\ symbolsToTrain # <<>>
                  THEN [IdleRun EXCEPT !.pc = "announce", !.todo = symbolsToTrain,
                                       !.total = Len(symbolsToTrain)]
                  ELSE IdleRun]
    /\ UNCHANGED <<storeVars, modelCache, answer, jobs>>
    /\ UNCHANGED <<eligible, marketVars, now, boot, initialLoadComplete,
                   configVars, connVars, saw, cec, pendingNewPairAlerts, cacheVars,
                   alertVars, pendingChecks, dataVars, realtime, alertSends>>

\* trainAllModels: the announcement settles and the loop begins.
RunAnnounced(t, ok, memok) ==
    /\ Disturb(Cost(ok) + Cost(memok))
    /\ runs[t].pc = "announce"
    /\ IF ok THEN RunLoop(t, runs[t], memok)
       ELSE /\ memok
            /\ runs' = [runs EXCEPT ![t] = IdleRun]
            /\ UNCHANGED <<jobs, dataFiles>>
    /\ UNCHANGED <<storeVars, modelCache, answer>>
    /\ UNCHANGED <<trainingData, labelTimers, labelLookups, month, pointsMade, mc>>
    /\ UNCHANGED <<eligible, marketVars, now, boot, initialLoadComplete,
                   configVars, connVars, saw, cec, pendingNewPairAlerts, cacheVars,
                   alertVars, pendingChecks, realtime, alertSends>>

\* The 5-second pause after a symbol is over: the loop goes on.
RunDelayDone(t, memok) ==
    /\ Disturb(Cost(memok))
    /\ runs[t].pc = "delay"
    /\ RunLoop(t, runs[t], memok)
    /\ UNCHANGED <<storeVars, modelCache, answer>>
    /\ UNCHANGED <<trainingData, labelTimers, labelLookups, month, pointsMade, mc>>
    /\ UNCHANGED <<eligible, marketVars, now, boot, initialLoadComplete,
                   configVars, connVars, saw, cec, pendingNewPairAlerts, cacheVars,
                   alertVars, pendingChecks, realtime, alertSends>>

\* trainAllModels: the progress message settles.  Sent, the pause follows; a
\* rejected send throws into the catch of the loop body, which counts the
\* symbol as failed and goes on to the next symbol at once.
RunProgressSent(t, ok, memok) ==
    /\ Disturb(Cost(ok) + Cost(memok))
    /\ runs[t].pc = "progress"
    /\ IF ok
       THEN /\ memok
            /\ runs' = [runs EXCEPT ![t].pc = "delay"]
            /\ UNCHANGED <<jobs, dataFiles>>
       ELSE RunLoop(t, [runs[t] EXCEPT !.failedCount = @ + 1], memok)
    /\ UNCHANGED <<storeVars, modelCache, answer>>
    /\ UNCHANGED <<trainingData, labelTimers, labelLookups, month, pointsMade, mc>>
    /\ UNCHANGED <<eligible, marketVars, now, boot, initialLoadComplete,
                   configVars, connVars, saw, cec, pendingNewPairAlerts, cacheVars,
                   alertVars, pendingChecks, realtime, alertSends>>

\* -------------------------------------------- indicators (unnamed/part_002)
\* Prices of the indicator calls are multiples of 216, which keeps every
\* division of the moving averages over MaxLen + 1 values exact.
\* An element that is null, undefined or not a number
NotANumber == 0 - 1
IndValues == {NotANumber, 216, 432}
IndPeriods == {1, 2}

\* The first argument of a call: an array of at most MaxLen elements, or a
\* value that is no array
NotAnArray == [isArray |-> FALSE, items |-> <<>>]
ArraysOf(values) ==
    {[isArray |-> TRUE, items |-> q] :
        q \in UNION {[1..n -> values] : n \in 0..MaxLen}}
PriceInputs == ArraysOf(IndValues) \cup {NotAnArray}

\* The candles of a calculateATR call
IndKlines == {[high |-> 432, low |-> 216, close |-> 216],
              [high |-> 432, low |-> 432, close |-> 432],
              [high |-> NotANumber, low |-> 216, close |-> 216]}
KlineInputs == ArraysOf(IndKlines) \cup {NotAnArray}

Thrown == [threw |-> TRUE, value |-> <<>>]
Returned(v) == [threw |-> FALSE, value |-> v]

\* validatePriceData(prices, minLength): "throw", "false" or "true"; the
\* length is looked at before the elements
validatePriceData(prices, minLength) ==
    IF ~prices.isArray THEN "throw"
    ELSE IF Len(prices.items) < minLength THEN "false"
    ELSE IF \E i \in 1..Len(prices.items) : prices.items[i] = NotANumber THEN "throw"
    ELSE "true"

\* padArray(array, targetLength, padValue, true)
padArray(array, targetLength, padValue) ==
    IF Len(array) >= targetLength THEN array
    ELSE [i \in 1..(targetLength - Len(array)) |-> padValue] \o array

\* calculateEMA(prices, period) of the indicators, on an array that passed
\* or failed validatePriceData as valid says
EmaPadded(items, period, valid) ==
    IF ~valid
    THEN padArray(<<>>, Len(items), IF Len(items) > 0 THEN items[1] ELSE 0)
    ELSE LET sma == SumSeq(SubSeq(items, 1, period)) \div period
         IN  padArray(<<sma>> \o EmaFrom(items, period, period + 1, sma),
                      Len(items), items[1])

indicatorsEMA(prices, period) ==
    LET v == validatePriceData(prices, period)
    IN  IF v = "throw" THEN Thrown
        ELSE Returned(EmaPadded(prices.items, period, v = "true"))

\* calculateMACD(prices, fastPeriod, slowPeriod, signalPeriod)
calculateMACD(prices, fastPeriod, slowPeriod, signalPeriod) ==
    LET v == validatePriceData(prices, Max(fastPeriod, slowPeriod))
        n == Len(prices.items)
        zeros == [i \in 1..n |-> 0]
        fastEMA == EmaPadded(prices.items, fastPeriod, TRUE)
        slowEMA == EmaPadded(prices.items, slowPeriod, TRUE)
        macdLine == [i \in 1..n |->
                       IF i - 1 < slowPeriod - 1 THEN 0 ELSE fastEMA[i] - slowEMA[i]]
        signalLine == EmaPadded(macdLine, signalPeriod, n >= signalPeriod)
        histogram == [i \in 1..n |->
                        IF i - 1 < slowPeriod + signalPeriod - 2 THEN 0
                        ELSE macdLine[i] - signalLine[i]]
    IN  IF v = "throw" THEN Thrown
        ELSE IF v = "false"
        THEN Returned([histogram |-> zeros, macd |-> zeros, signal |-> zeros])
        ELSE Returned([histogram |-> histogram, macd |-> macdLine,
                       signal |-> signalLine])

\* calculateATR(klines, period)
TrueRange(k, prev) ==
    Max(k.high - k.low, Max(Abs(k.high - prev.close), Abs(k.low - prev.close)))

calculateATR(klines, period) ==
    LET ks == klines.items
        trueRanges == [i \in 1..(Len(ks) - 1) |-> TrueRange(ks[i + 1], ks[i])]
    IN  IF ~klines.isArray THEN Thrown
        ELSE IF Len(ks) < period + 1 THEN Returned(0)
        ELSE IF \E i \in 1..Len(ks) : ks[i].high = NotANumber THEN Thrown
        ELSE Returned(SumSeq(SliceLast(trueRanges, period)) \div period)

\* A caller of the indicators module calls one of its functions.
IndicatorCall(fn, input, periods, res) ==
    /\ answer' = [fn |-> fn, input |-> input, periods |-> periods,
                  threw |-> res.threw, value |-> res.value]
    /\ UNCHANGED <<storeVars, modelCache, jobs, runs>>
    /\ UNCHANGED <<faults, eligible, marketVars, now, boot, initialLoadComplete,
                   configVars, connVars, saw, cec, pendingNewPairAlerts, cacheVars,
                   alertVars, pendingChecks, dataVars, realtime, alertSends>>

\* ------------------------------------------------------------ specifications
\* The supervisor and the transports of two symbols; the market stands still.
\* checkEMACross runs once, at startup.
SteadyMarket == [s \in Symbols |-> <<BasePrice, BasePrice>>]

InitConn ==
    /\ InitCommon
    /\ mktHist = SteadyMarket
    /\ eligible \in SUBSET Symbols
    /\ ML_ENABLED = FALSE

NextConn ==
    \/ \E s \in Symbols : EligibilityChange(s)
    \/ SetupAllStart
    \/ refreshWebSockets
    \/ \E ok \in BOOLEAN, wsok \in BOOLEAN : SawPairsResp(ok, wsok)
    \/ \E wsok \in BOOLEAN : SawResume(wsok)
    \/ \E wsok \in [Symbols -> BOOLEAN] : Heartbeat(wsok)
    \/ \E s \in Symbols, i \in 1..MaxSockets : WsOpen(s, i)
    \/ \E s \in Symbols, i \in 1..MaxSockets : WsError(s, i)
    \/ \E s \in Symbols, i \in 1..MaxSockets : WsCloseEvent(s, i)
    \/ \E s \in Symbols, wsok \in BOOLEAN : ReconnectTimerFires(s, wsok)
    \/ \E s \in Symbols, sent \in BOOLEAN, wsok \in BOOLEAN : alertNewHighVolumePairs(s, sent, wsok)
    \/ \E ok \in BOOLEAN : CecPairsResp(ok)
    \/ \E s \in Symbols, ok \in BOOLEAN, p \in {BasePrice} : CecKlinesResp(s, ok, p)

SpecConn == InitConn /\ [][NextConn]_vars

\* The same with the periodic check of initialize() running after startup.
NextRecon == NextConn \/ CecStart

SpecRecon == InitConn /\ [][NextRecon]_vars


\* One symbol: its session over transport failures, reconnects and restarts,
\* with candles closing on the exchange at a steady price.
InitSession ==
    /\ InitCommon
    /\ mktHist = SteadyMarket
    /\ eligible = {"s1"}
    /\ ML_ENABLED = FALSE

NextSession ==
    \/ SetupAllStart
    \/ refreshWebSockets
    \/ \E ok \in BOOLEAN, wsok \in BOOLEAN : SawPairsResp(ok, wsok)
    \/ \E wsok \in BOOLEAN : SawResume(wsok)
    \/ \E wsok \in [Symbols -> BOOLEAN] : Heartbeat(wsok)
    \/ \E s \in Symbols, i \in 1..MaxSockets : WsOpen(s, i)
    \/ \E s \in Symbols, i \in 1..MaxSockets : WsError(s, i)
    \/ \E s \in Symbols, i \in 1..MaxSockets : WsCloseEvent(s, i)
    \/ \E s \in Symbols, wsok \in BOOLEAN : ReconnectTimerFires(s, wsok)
    \/ \E s \in Symbols, i \in 1..MaxSockets, ok \in BOOLEAN, p \in {BasePrice} :
          SessionKlinesResp(s, i, ok, p)
    \/ \E s \in Symbols, sent \in BOOLEAN, wsok \in BOOLEAN : alertNewHighVolumePairs(s, sent, wsok)
    \/ CecStart
    \/ \E ok \in BOOLEAN : CecPairsResp(ok)
    \/ \E s \in Symbols, ok \in BOOLEAN, p \in {BasePrice} : CecKlinesResp(s, ok, p)
    \/ \E s \in Symbols, i \in 1..MaxSockets, p \in {BasePrice} : WsClosedCandleMsg(s, i, p)
    \/ \E s \in Symbols, p \in {BasePrice} : MarketCloseUnobserved(s, p)

SpecSession == InitSession /\ [][NextSession]_vars

\* The same session with the operator changing the EMA period.
NextPeriod ==
    \/ NextSession
    \/ \E n \in EmaPeriods : emaPeriodChange(n)

SpecPeriod == InitSession /\ [][NextPeriod]_vars

\* One symbol on a healthy transport with data collection enabled: closed
\* candles from the stream, the operator's manual collection, the labelling
\* timers and their price lookups, the periodic save and the turn of the
\* month.  Candles close at a steady price, so no crossover check changes the
\* alert state; the price a lookup reports may differ.  Requests do not fail.
InitData ==
    /\ InitCommon
    /\ mktHist = SteadyMarket
    /\ eligible = {"s1"}
    /\ ML_ENABLED = TRUE

NextData ==
    \/ McLoopStep
    \/ \E ok \in {TRUE}, wsok \in {TRUE} : ~McInLoop /\ SawPairsResp(ok, wsok)
    \/ \E wsok \in {TRUE} : ~McInLoop /\ SawResume(wsok)
    \/ \E s \in Symbols, i \in 1..MaxSockets : ~McInLoop /\ WsOpen(s, i)
    \/ \E s \in Symbols, i \in 1..MaxSockets, ok \in {TRUE}, p \in {BasePrice} :
          ~McInLoop /\ SessionKlinesResp(s, i, ok, p)
    \/ \E ok \in {TRUE} : ~McInLoop /\ CecPairsResp(ok)
    \/ \E s \in Symbols, ok \in {TRUE}, p \in {BasePrice} :
          ~McInLoop /\ CecKlinesResp(s, ok, p)
    \/ \E s \in Symbols, i \in 1..MaxSockets, p \in {BasePrice} :
          ~McInLoop /\ WsClosedCandleMsg(s, i, p)
    \/ \E s \in Symbols : ~McInLoop /\ LabelTimerFires(s)
    \/ \E k \in 1..MaxLookups, ok \in {TRUE}, p \in Prices :
          ~McInLoop /\ LabelLookupResp(k, ok, p)
    \/ ~McInLoop /\ saveTrainingData
    \/ ~McInLoop /\ MonthRollover
    \/ ~McInLoop /\ McStart
    \/ \E ok \in {TRUE} : ~McInLoop /\ McPairsResp(ok)
    \/ \E ok \in {TRUE}, p \in {BasePrice} : ~McInLoop /\ McKlinesResp(ok, p)
    \/ McLoopEnd

SpecData == InitData /\ [][NextData]_vars

\* The collection of SpecData over restarts of the process.
NextReload ==
    \/ NextData
    \/ ~McInLoop /\ Restart

\* The collection of SpecData with files that get damaged on the disk and a
\* reader of the collected data.
NextCorrupt ==
    \/ NextData
    \/ \E s \in Symbols, m \in Months : ~McInLoop /\ FileCorrupted(s, m)
    \/ \E s \in {"s1"} : ~McInLoop /\ getSymbolData(s)

SpecCorrupt == InitData /\ [][NextCorrupt]_vars

SpecReload == InitData /\ [][NextReload]_vars

\* The model store of one symbol under trainings started from outside
\* node.js, two of which may run at a time, and the readers of the store.
\* Every request of a training succeeds but the trials of the search.
InitStore ==
    /\ InitCommon
    /\ mktHist = SteadyMarket
    /\ eligible = {}
    /\ ML_ENABLED = TRUE

NextStore ==
    \/ TrainCall("s1", TRUE)
    \/ \E k \in JobSlots : TrainLoaded(k, TRUE, TRUE)
    \/ \E k \in JobSlots, trained \in BOOLEAN : TrialDone(k, trained, TRUE)
    \/ \E k \in JobSlots, linkok \in BOOLEAN : TrainDone(k, TRUE, 2, 2, linkok)
    \/ \E k \in JobSlots : AnalyzeDone(k)
    \/ getModelPerformance("s1")
    \/ predictPriceChange("s1", "numeric")

SpecStore == InitStore /\ [][NextStore]_vars

\* One symbol, one training at a time, networks that differ in their output,
\* and ensemble predictions.
NextEnsemble ==
    \/ Running = {} /\ TrainCall("s1", TRUE)
    \/ \E k \in JobSlots : TrainLoaded(k, TRUE, TRUE)
    \/ \E k \in JobSlots : TrialDone(k, TRUE, TRUE)
    \/ \E k \in JobSlots, out \in Outs : TrainDone(k, TRUE, out, 2, TRUE)
    \/ \E k \in JobSlots : AnalyzeDone(k)
    \/ \E f \in FeatureInputs, o \in Orders(1) \cup Orders(2) \cup Orders(3) :
          ensemblePrediction("s1", f, o)

SpecEnsemble == InitStore /\ [][NextEnsemble]_vars

\* Prediction requests for three symbols, one training at a time.
NextPredict ==
    \/ \E s \in ModelSymbols : Running = {} /\ TrainCall(s, TRUE)
    \/ \E k \in JobSlots : TrainLoaded(k, TRUE, TRUE)
    \/ \E k \in JobSlots : TrialDone(k, TRUE, TRUE)
    \/ \E k \in JobSlots, sd \in StdDevs : TrainDone(k, TRUE, 2, sd, TRUE)
    \/ \E k \in JobSlots : AnalyzeDone(k)
    \/ \E s \in ModelSymbols, f \in FeatureInputs : predictPriceChange(s, f)

SpecPredict == InitStore /\ [][NextPredict]_vars

\* Trainings of one symbol in which trials fail, the memory guard stops the
\* search, data is missing and the final training fails.
NextSearch ==
    \/ \E memok \in BOOLEAN : TrainCall("s1", memok)
    \/ \E k \in JobSlots, enough \in BOOLEAN, memok \in BOOLEAN :
          TrainLoaded(k, enough, memok)
    \/ \E k \in JobSlots, trained \in BOOLEAN, memok \in BOOLEAN :
          TrialDone(k, trained, memok)
    \/ \E k \in JobSlots, trained \in BOOLEAN : TrainDone(k, trained, 2, 2, TRUE)
    \/ \E k \in JobSlots : AnalyzeDone(k)

SpecSearch == InitStore /\ [][NextSearch]_vars

\* One symbol whose candles are collected and labelled, and the training
\* loops the interval and the operator start.  Requests succeed.
NextTrain ==
    \/ \E ok \in {TRUE}, wsok \in {TRUE} : SawPairsResp(ok, wsok)
    \/ \E wsok \in {TRUE} : SawResume(wsok)
    \/ \E s \in Symbols, i \in 1..MaxSockets : WsOpen(s, i)
    \/ \E s \in Symbols, i \in 1..MaxSockets, ok \in {TRUE}, p \in {BasePrice} :
          SessionKlinesResp(s, i, ok, p)
    \/ \E ok \in {TRUE} : CecPairsResp(ok)
    \/ \E s \in Symbols, ok \in {TRUE}, p \in {BasePrice} : CecKlinesResp(s, ok, p)
    \/ \E s \in Symbols, i \in 1..MaxSockets, p \in {BasePrice} :
          WsClosedCandleMsg(s, i, p)
    \/ \E s \in Symbols : LabelTimerFires(s)
    \/ \E k \in 1..MaxLookups, ok \in {TRUE}, p \in {BasePrice} :
          LabelLookupResp(k, ok, p)
    \/ \E t \in Triggers : RunStart(t, TRUE)
    \/ \E t \in Triggers : RunGreeted(t, TRUE)
    \/ \E t \in Triggers : RunAnnounced(t, TRUE, TRUE)
    \/ \E t \in Triggers : RunDelayDone(t, TRUE)
    \/ \E k \in JobSlots : TrainLoaded(k, TRUE, TRUE)
    \/ \E k \in JobSlots : TrialDone(k, TRUE, TRUE)
    \/ \E k \in JobSlots : TrainDone(k, TRUE, 2, 2, TRUE)
    \/ \E k \in JobSlots : AnalyzeDone(k)

SpecTrain == InitData /\ [][NextTrain]_vars

\* A start that finds, for both symbols, a file with a labelled data point
\* of an earlier run, and the training loops over them: sends to the chat
\* are rejected, trainings fail, the memory guard stops calls.  No symbol is
\* eligible, so no stream session adds data.
PersistedPoint == [timestamp |-> 1, close |-> BasePrice, numeric |-> TRUE,
                   labelled |-> TRUE, future |-> 0]

InitBatch ==
    /\ InitProcess
    /\ mktHist = SteadyMarket
    /\ eligible = {}
    /\ ML_ENABLED = TRUE
    /\ dataFiles = [s \in Symbols |->
                      [m \in Months |-> IF m = 1 THEN <<PersistedPoint>> ELSE <<>>]]
    /\ trainingData = loadTrainingData

NextBatch ==
    \/ \E ok \in {TRUE} : CecPairsResp(ok)
    \/ \E ok \in {TRUE}, wsok \in {TRUE} : SawPairsResp(ok, wsok)
    \/ \E t \in Triggers, memok \in BOOLEAN : RunStart(t, memok)
    \/ \E t \in Triggers, ok \in BOOLEAN : RunGreeted(t, ok)
    \/ \E t \in Triggers, ok \in BOOLEAN, memok \in BOOLEAN : RunAnnounced(t, ok, memok)
    \/ \E t \in Triggers, memok \in BOOLEAN : RunDelayDone(t, memok)
    \/ \E t \in Triggers, ok \in BOOLEAN, memok \in BOOLEAN :
          RunProgressSent(t, ok, memok)
    \/ \E k \in JobSlots, enough \in BOOLEAN : TrainLoaded(k, enough, TRUE)
    \/ \E k \in JobSlots, trained \in BOOLEAN : TrialDone(k, trained, TRUE)
    \/ \E k \in JobSlots, trained \in BOOLEAN : TrainDone(k, trained, 2, 2, TRUE)
    \/ \E k \in JobSlots : AnalyzeDone(k)

SpecBatch == InitBatch /\ [][NextBatch]_vars

\* Calls of the indicator functions with arrays of at most MaxLen elements,
\* some of them not numbers, and with values that are no arrays.
NextIndicators ==
    \/ \E in \in PriceInputs, period \in IndPeriods :
          IndicatorCall("calculateEMA", in, <<period>>, indicatorsEMA(in, period))
    \/ \E in \in PriceInputs, fast \in IndPeriods, slow \in IndPeriods,
          signal \in IndPeriods :
          IndicatorCall("calculateMACD", in, <<fast, slow, signal>>,
                        calculateMACD(in, fast, slow, signal))
    \/ \E in \in KlineInputs, period \in IndPeriods :
          IndicatorCall("calculateATR", in, <<period>>, calculateATR(in, period))

SpecIndicators == InitStore /\ [][NextIndicators]_vars

\* A recently listed symbol, whose history on the exchange is shorter than
\* the EMA period the operator chooses, with data collection enabled.
YoungMarket == [s \in Symbols |-> <<BasePrice>>]

InitCollect ==
    /\ InitCommon
    /\ mktHist = YoungMarket
    /\ eligible = {"s1"}
    /\ ML_ENABLED = TRUE

NextCollect ==
    \/ \E ok \in {TRUE}, wsok \in {TRUE} : SawPairsResp(ok, wsok)
    \/ \E wsok \in {TRUE} : SawResume(wsok)
    \/ \E s \in Symbols, i \in 1..MaxSockets : WsOpen(s, i)
    \/ \E s \in Symbols, i \in 1..MaxSockets, ok \in {TRUE}, p \in {BasePrice} :
          SessionKlinesResp(s, i, ok, p)
    \/ \E ok \in {TRUE} : CecPairsResp(ok)
    \/ \E s \in Symbols, ok \in {TRUE}, p \in {BasePrice} : CecKlinesResp(s, ok, p)
    \/ \E s \in Symbols, i \in 1..MaxSockets, p \in {BasePrice} :
          WsClosedCandleMsg(s, i, p)
    \/ \E n \in EmaPeriods : emaPeriodChange(n)
    \/ refreshWebSockets
    \/ saveTrainingData
    \/ MonthRollover

SpecCollect == InitCollect /\ [][NextCollect]_vars

\* One symbol on a healthy transport with data collection enabled and a
\* moving market: closed candles and in-progress updates from the stream and
\* the crossover decisions they lead to.  The clock stands still.
InitTick ==
    /\ InitCommon
    /\ \E a \in Prices : mktHist = [SteadyMarket EXCEPT !["s1"] = <<a, BasePrice>>]
    /\ eligible = {"s1"}
    /\ ML_ENABLED = TRUE

NextTick ==
    \/ \E ok \in {TRUE}, wsok \in {TRUE} : SawPairsResp(ok, wsok)
    \/ \E wsok \in {TRUE} : SawResume(wsok)
    \/ \E s \in Symbols, i \in 1..MaxSockets : WsOpen(s, i)
    \/ \E s \in Symbols, i \in 1..MaxSockets, ok \in {TRUE}, p \in Prices :
          SessionKlinesResp(s, i, ok, p)
    \/ \E ok \in {TRUE} : CecPairsResp(ok)
    \/ \E s \in Symbols, ok \in {TRUE}, p \in Prices : CecKlinesResp(s, ok, p)
    \/ \E s \in Symbols, i \in 1..MaxSockets, p \in Prices : WsClosedCandleMsg(s, i, p)
    \/ \E s \in Symbols, i \in 1..MaxSockets, p \in Prices : WsRealtimeMsg(s, i, p)
    \/ \E chk \in pendingChecks : CrossoverDecide(chk)

SpecTick == InitTick /\ [][NextTick]_vars

\* One symbol on a healthy transport with a moving market, predictions off:
\* every crossover check decides when it is called and then awaits the send
\* of its alert, while candles keep closing and the periodic check keeps
\* running.
InitOrder ==
    /\ InitCommon
    /\ \E a \in Prices : mktHist = [SteadyMarket EXCEPT !["s1"] = <<a, BasePrice>>]
    /\ eligible = {"s1"}
    /\ ML_ENABLED = FALSE

NextOrder ==
    \/ \E ok \in {TRUE}, wsok \in {TRUE} : SawPairsResp(ok, wsok)
    \/ \E wsok \in {TRUE} : SawResume(wsok)
    \/ \E s \in Symbols, i \in 1..MaxSockets : WsOpen(s, i)
    \/ \E s \in Symbols, i \in 1..MaxSockets, ok \in {TRUE}, p \in Prices :
          SessionKlinesResp(s, i, ok, p)
    \/ CecStart
    \/ \E ok \in {TRUE} : CecPairsResp(ok)
    \/ \E s \in Symbols, ok \in {TRUE}, p \in Prices : CecKlinesResp(s, ok, p)
    \/ \E s \in Symbols, i \in 1..MaxSockets, p \in Prices : WsClosedCandleMsg(s, i, p)
    \/ \E snd \in alertSends : AlertSendSettles(snd)
    \/ Tick

SpecOrder == InitOrder /\ [][NextOrder]_vars

\* One symbol on a healthy transport with a moving market and a running
\* clock: closed candles from the stream, the periodic backup check, and the
\* crossover policy deciding after the prediction step.  Requests do not fail
\* here: a failed request leaves the caches and the alert state as they are.
\* Candles close once the stream is open; the history starts flat or falling,
\* its last closed candle at the base price.
InitAlert ==
    /\ InitCommon
    /\ \E a \in Prices : mktHist = [SteadyMarket EXCEPT !["s1"] = <<a, BasePrice>>]
    /\ eligible = {"s1"}
    /\ ML_ENABLED = TRUE

NextAlert ==
    \/ \E ok \in {TRUE}, wsok \in {TRUE} : SawPairsResp(ok, wsok)
    \/ \E wsok \in {TRUE} : SawResume(wsok)
    \/ \E s \in Symbols, i \in 1..MaxSockets : WsOpen(s, i)
    \/ \E s \in Symbols, i \in 1..MaxSockets, ok \in {TRUE}, p \in Prices :
          SessionKlinesResp(s, i, ok, p)
    \/ CecStart
    \/ \E ok \in {TRUE} : CecPairsResp(ok)
    \/ \E s \in Symbols, ok \in {TRUE}, p \in Prices : CecKlinesResp(s, ok, p)
    \/ \E s \in Symbols, i \in 1..MaxSockets, p \in Prices : WsClosedCandleMsg(s, i, p)
    \/ \E chk \in pendingChecks : CrossoverDecide(chk)
    \/ Tick

SpecAlert == InitAlert /\ [][NextAlert]_vars


\* The supervisor with its periodic check under the scheduling the event loop guarantees: pending
\* timers fire, interval callbacks run, awaited requests settle and a closing
\* transport emits 'close'.  Operator commands, volume changes, transport
\* errors and peer drops carry no such guarantee.
FairRecon ==
    /\ \A s \in Symbols : WF_vars(\E wsok \in BOOLEAN : ReconnectTimerFires(s, wsok))
    /\ \A s \in Symbols : WF_vars(\E i \in 1..Len(sockets[s]) :
                                    sockets[s][i].readyState = "CLOSING" /\ WsCloseEvent(s, i))
    /\ \A s \in Symbols : WF_vars(\E sent \in BOOLEAN, wsok \in BOOLEAN :
                                    alertNewHighVolumePairs(s, sent, wsok))
    /\ WF_vars(\E wsok \in [Symbols -> BOOLEAN] : Heartbeat(wsok))
    /\ WF_vars(\E ok \in BOOLEAN, wsok \in BOOLEAN : SawPairsResp(ok, wsok))
    /\ WF_vars(\E wsok \in BOOLEAN : SawResume(wsok))
    /\ WF_vars(CecStart)
    /\ WF_vars(\E ok \in BOOLEAN : CecPairsResp(ok))
    /\ WF_vars(\E s \in Symbols, ok \in BOOLEAN, p \in {BasePrice} : CecKlinesResp(s, ok, p))

FairSpecRecon == InitConn /\ [][NextRecon]_vars /\ FairRecon


\* ------------------------------------------------------------------ claims
LiveSockets(s) == {i \in 1..Len(sockets[s]) : Live(sockets[s][i])}

\* C1: in every reachable state each symbol has at most one transport that is
\* connecting or open, it is the one in activeWebSockets, and every other
\* transport created for the symbol is closing or closed.
C1_AtMostOneLiveTransport ==
    \A s \in Symbols :
        /\ Cardinality(LiveSockets(s)) <= 1
        /\ \A i \in 1..Len(sockets[s]) :
              i # activeWebSockets[s] =>
                 sockets[s][i].readyState \in {"CLOSING", "CLOSED", "FAILED"}

\* a symbol whose transport was replaced: one connecting or open, an older one closing or closed
C1_Witness ==
    \E s \in Symbols :
        /\ LiveSockets(s) # {}
        /\ \E i \in 1..Len(sockets[s]) : sockets[s][i].readyState \in {"CLOSING", "CLOSED"}

AlertGapsRespectCooldown(s) ==
    \A i \in 1..Len(alerts[s]) : \A j \in 1..Len(alerts[s]) :
        i < j => alerts[s][j].time - alerts[s][i].time >= ALERT_COOLDOWN

\* C2: for every symbol, any two emitted crossover alerts are at least
\* ALERT_COOLDOWN apart, whichever of the stream's closed candles and the
\* periodic backup check produced them and in whatever order their checks decided.
C2_AlertsSeparatedByCooldown == \A s \in Symbols : AlertGapsRespectCooldown(s)

\* two alerts for one symbol have been emitted
C2_Witness == \E s \in Symbols : Len(alerts[s]) >= 2

\* C3: a deciding crossover check emits an alert only if the side it observed
\* differs from the recorded side and the cooldown has elapsed; with the side
\* recorded as below and the last alert at T, an upward flip decided before
\* T + cooldown emits nothing and leaves the timestamp, and one decided at
\* T + cooldown or later emits exactly one alert and sets the timestamp to now.
C3_CooldownBoundary ==
    [][\A chk \in pendingChecks :
         CrossoverDecide(chk) =>
           LET s == chk.sym IN
           /\ Len(alerts'[s]) > Len(alerts[s]) =>
                 /\ coinStates[s] # currentStateOf(chk)
                 /\ now - lastAlerts[s] >= ALERT_COOLDOWN
           /\ (coinStates[s] = "below" /\ UpCross(chk)) =>
                 IF now - lastAlerts[s] >= ALERT_COOLDOWN
                 THEN /\ alerts'[s] = Append(alerts[s], [time |-> now, dir |-> "up"])
                      /\ lastAlerts'[s] = now
                 ELSE /\ alerts'[s] = alerts[s]
                      /\ lastAlerts'[s] = lastAlerts[s]]_vars

\* an upward alert emitted exactly one cooldown after the previous alert
C3_Witness ==
    \E s \in Symbols : \E j \in 2..Len(alerts[s]) :
        /\ alerts[s][j].dir = "up"
        /\ alerts[s][j].time = alerts[s][j - 1].time + ALERT_COOLDOWN
        /\ lastAlerts[s] = alerts[s][j].time

\* C4: when the previous candle's price equals its EMA and the new closed
\* candle's price is above the new EMA, the check records the side above and,
\* the side having been below (or unset) and the cooldown elapsed, emits
\* exactly one upward alert.
C4_TieThenAboveAlerts ==
    [][\A chk \in pendingChecks :
         (CrossoverDecide(chk) /\ chk.prev = "eq" /\ chk.last = "gt"
            /\ coinStates[chk.sym] # "above") =>
           LET s == chk.sym IN
           /\ coinStates'[s] = "above"
           /\ now - lastAlerts[s] >= ALERT_COOLDOWN =>
                 alerts'[s] = Append(alerts[s], [time |-> now, dir |-> "up"])]_vars

\* C5: once reconciliation has closed and dropped the session of a symbol that
\* is not eligible, no reconnect timer and no heartbeat scan opens a transport
\* for it while it stays ineligible.
C5_ClosedStaysClosed ==
    [][\A s \in Symbols :
         (/\ s \notin eligible /\ s \notin eligible'
          /\ Len(sockets[s]) > 0 /\ activeWebSockets[s] = 0 /\ LiveSockets(s) = {}
          /\ \/ \E wsok \in BOOLEAN : ReconnectTimerFires(s, wsok)
             \/ \E wsok \in [Symbols -> BOOLEAN] : Heartbeat(wsok))
         => (LiveSockets(s))' = {}]_vars

\* C6: a periodic reconciliation pass starts a session for every newly
\* eligible symbol, whether or not its notification could be sent, and closes
\* the session of every tracked symbol that is no longer eligible.
C6_PassStartsAndClosesSessions ==
    [][/\ \A s \in Symbols :
            (\E sent \in BOOLEAN, wsok \in BOOLEAN : alertNewHighVolumePairs(s, sent, wsok))
               => Len(sockets'[s]) > Len(sockets[s])
       /\ CecPairsResp(TRUE) =>
            \A s \in trackedPairs \ eligible : (LiveSockets(s))' = {}]_vars

\* C7: for a tracked symbol, a connection attempt that failed during setup is
\* eventually followed by another connection attempt.
C7_RetryAfterFailedSetup ==
    \A s \in Symbols : \A n \in 1..(MaxSockets - 1) :
        (/\ s \in trackedPairs
         /\ Len(sockets[s]) = n
         /\ sockets[s][n].readyState = "FAILED")
        ~> (Len(sockets[s]) > n)

\* C8: re-establishing the transport of a symbol that already has a candle
\* buffer (the backfill of a transport that replaces an earlier one settles)
\* leaves its candle buffer, EMA history and alert state as they were.
C8_ReconnectPreservesState ==
    [][\A s \in Symbols : \A i \in 2..Len(sockets[s]) :
         (/\ klineCache[s] # <<>>
          /\ \E ok \in BOOLEAN, p \in Prices : SessionKlinesResp(s, i, ok, p)) =>
            /\ klineCache'[s] = klineCache[s]
            /\ emaCache'[s] = emaCache[s]
            /\ coinStates'[s] = coinStates[s]
            /\ lastAlerts'[s] = lastAlerts[s]]_vars

\* C9: a heartbeat scan restarts the session of every tracked, eligible symbol
\* whose transport is not open: closed, closing, connecting or never created.
C9_HeartbeatRestartsAllNotOpen ==
    [][(\E wsok \in [Symbols -> BOOLEAN] : Heartbeat(wsok)) =>
         \A s \in trackedPairs \cap eligible :
            (ActiveState(s) # "OPEN" /\ CanSetup(s)) => Len(sockets'[s]) > Len(sockets[s])]_vars

\* C10: no closed-candle event of a session is applied to the symbol's state
\* while the historical backfill that session started is still in flight.
C10_NoEventBeforeBackfill ==
    [][\A s \in Symbols : \A i \in 1..Len(sockets[s]) :
         (\E p \in Prices : WsClosedCandleMsg(s, i, p)) =>
            sockets[s][i].backfill # "pending"]_vars

\* C11: a step in which processRealtimeCandle evaluates an in-progress update
\* leaves the candle buffer, the EMA history, the side and the time of the
\* last alert, the training data in memory and in the files unchanged, arms no
\* labelling timer, starts no price lookup and emits no alert.
C11_TickLeavesStateAlone ==
    [][realtime' # realtime =>
         UNCHANGED <<klineCache, emaCache, coinStates, lastAlerts, alerts, alertSends,
                     pendingChecks, trainingData, dataFiles, labelTimers,
                     labelLookups>>]_vars

\* an in-progress update crossed the EMA of a symbol that has collected data
\* and an armed labelling timer
C11_Witness ==
    \E s \in Symbols :
       /\ realtime[s].prevState # "none"
       /\ realtime[s].prevState # realtime[s].currentState
       /\ realtime[s].price # Last(klineCache[s]).close
       /\ trainingData[s] # <<>> /\ dataFiles[s][month] # <<>>
       /\ labelTimers[s] # <<>>
       /\ coinStates[s] # "none"

\* C14: a price equal to the current EMA value is given the side above, by
\* the decision on a closed candle and by the evaluation of an in-progress
\* update alike.
C14_TieCountsAsAbove ==
    [][/\ \A chk \in pendingChecks :
            (CrossoverDecide(chk) /\ chk.last = "eq") => coinStates'[chk.sym] = "above"
       /\ \A s \in Symbols :
            (realtime'[s] # realtime[s] /\ realtime'[s].price = Last(emaCache[s])) =>
               realtime'[s].currentState = "above"]_vars

\* C13: a decision that finds the side unchanged, or the cooldown not yet
\* elapsed, emits no alert, leaves the time of the last alert as it is and
\* records the side it observed.
C13_SkippedDecisionRecordsSide ==
    [][\A chk \in pendingChecks :
         (/\ CrossoverDecide(chk)
          /\ \/ coinStates[chk.sym] = currentStateOf(chk)
             \/ now - lastAlerts[chk.sym] < ALERT_COOLDOWN) =>
           /\ alerts'[chk.sym] = alerts[chk.sym]
           /\ alertSends' = alertSends
           /\ lastAlerts'[chk.sym] = lastAlerts[chk.sym]
           /\ coinStates'[chk.sym] = currentStateOf(chk)]_vars

\* an upward alert went out and, within the cooldown, a downward crossover
\* has moved the side to below without a second alert
C13_Witness ==
    \E s \in Symbols :
       /\ Len(alerts[s]) = 1 /\ alerts[s][1].dir = "up"
       /\ now - lastAlerts[s] < ALERT_COOLDOWN
       /\ coinStates[s] = "below"
       /\ Len(klineCache[s]) >= 2 /\ Len(emaCache[s]) >= 2
       /\ DownCross(CheckArgs(s, klineCache[s], emaCache[s]))
       /\ pendingChecks = {}

\* C12: whatever the configured period, the candle buffer and the EMA history
\* of every symbol hold at most twice the period entries.
C12_BuffersWithinTwicePeriod ==
    \A s \in Symbols :
       /\ Len(klineCache[s]) <= 2 * EMA_PERIOD
       /\ Len(emaCache[s]) <= 2 * EMA_PERIOD

\* C15: the processing of a closed candle of a symbol, and the periodic check
\* of the symbol, begin only when no alert decision of that symbol still has
\* its emission under way.
C15_DecisionCompletesBeforeNextEvent ==
    [][\A s \in Symbols :
         (\/ mktHist'[s] # mktHist[s]
          \/ s \in cec.waiting /\ s \notin cec'.waiting) =>
            ~ \E snd \in alertSends : snd.sym = s]_vars

\* C16: while the initial load has not completed no new-symbol notification
\* is started, and when it completes every eligible symbol is tracked and has
\* a stream session.
C16_ColdStartTracksQuietly ==
    [][/\ ~initialLoadComplete' => pendingNewPairAlerts' = {}
       /\ (~initialLoadComplete /\ initialLoadComplete') =>
             \A s \in eligible : s \in trackedPairs' /\ activeWebSockets'[s] # 0]_vars

\* C17: a reconciliation pass whose eligible-symbol query fails leaves the
\* tracked set and every existing session exactly as they were.
C17_FailedQueryChangesNothing ==
    [][((\E wsok \in BOOLEAN : SawPairsResp(FALSE, wsok)) \/ CecPairsResp(FALSE)) =>
         UNCHANGED <<trackedPairs, sockets, activeWebSockets, reconnectTimers>>]_vars

\* C18: when a price lookup of a labelling timer settles, every data point
\* that already carries a label keeps it, in memory and in the files.
C18_LabelWrittenOnce ==
    [][Len(labelLookups') < Len(labelLookups) =>
         \A s \in Symbols :
            /\ \A i \in 1..Len(trainingData[s]) :
                  trainingData[s][i].labelled => trainingData'[s][i] = trainingData[s][i]
            /\ \A m \in Months : \A k \in 1..Len(dataFiles[s][m]) :
                  dataFiles[s][m][k].labelled =>
                     dataFiles'[s][m][k] = dataFiles[s][m][k]]_vars

\* C19: a labelling timer that fires for a timestamp with a persisted point
\* still lacking its label goes on to the price lookup that writes the label,
\* whether or not the point is still held in memory.
C19_TimerReachesLookup ==
    [][\A s \in Symbols :
         (/\ labelTimers[s] # <<>>
          /\ labelTimers'[s] = Tail(labelTimers[s])
          /\ \E m \in Months : \E k \in 1..Len(dataFiles[s][m]) :
                /\ dataFiles[s][m][k].timestamp = Head(labelTimers[s])
                /\ ~dataFiles[s][m][k].labelled) =>
            Len(labelLookups') = Len(labelLookups) + 1]_vars

\* a persisted file without the labels of its points
Unlabelled(file) ==
    [k \in 1..Len(file) |-> [timestamp |-> file[k].timestamp, close |-> file[k].close]]

\* C20: no step removes a point from a file (every file keeps its points, in
\* order, as a prefix), and a file grows only by a newly collected point,
\* never by points persisted before.
C20_FilesAppendOnly ==
    [][\A s \in Symbols : \A m \in Months :
         /\ Len(dataFiles'[s][m]) >= Len(dataFiles[s][m])
         /\ SubSeq(Unlabelled(dataFiles'[s][m]), 1, Len(dataFiles[s][m])) =
               Unlabelled(dataFiles[s][m])
         /\ Len(dataFiles'[s][m]) > Len(dataFiles[s][m]) =>
               /\ pointsMade'[s] = pointsMade[s] + 1
               /\ Len(dataFiles'[s][m]) = Len(dataFiles[s][m]) + 1]_vars

\* C21: a data point is collected from a closed candle only when its derived
\* features are all numbers: a candle closing on a buffer that already holds
\* the candles collection asks for adds a point to memory and to the file
\* only if that point has an EMA value to derive ema_diff from.
C21_IncompletePointRejected ==
    [][\A s \in Symbols :
         (/\ Len(klineCache[s]) >= ML_MIN_KLINES
          /\ pointsMade'[s] = pointsMade[s] + 1) =>
            /\ Last(trainingData'[s]).numeric
            /\ Last(dataFiles'[s][month]).numeric]_vars

\* C22: the in-memory training buffer of every symbol holds at most
\* TRAINING_CAP points at any time, also right after the persisted data
\* was loaded at startup.
C22_BufferWithinCap ==
    \A s \in Symbols : Len(trainingData[s]) <= TRAINING_CAP

\* the version all four files of `latest` come from, 0 when a file is
\* missing or the files come from different versions
LatestVersion(s) ==
    LET f == LatestFiles(s)
    IN  IF /\ LatestExists(s)
           /\ f.model.id # 0
           /\ f.hyperparams = f.model /\ f.features = f.model /\ f.performance = f.model
        THEN f.model.id ELSE 0

\* C23: at every point at which a reader can run, `latest` of a symbol with a
\* saved version resolves to one complete version (model, hyperparameters,
\* feature list and performance of the same version), and a step that
\* repoints it takes it from the previous version to the newly saved one.
C23_LatestIsOneCompleteVersion ==
    [][\A s \in ModelSymbols :
         /\ versionDirs'[s] # <<>> =>
               /\ LatestVersion(s)' # 0
               /\ HasVersion(s, LatestVersion(s))'
         /\ LatestVersion(s)' # LatestVersion(s) =>
               /\ LatestVersion(s)' = versionsMade'
               /\ versionsMade' = versionsMade + 1]_vars

\* a reader ran between the save of a training, which repointed `latest`
\* from an older version, and the end of that training
C23_Witness ==
    \E k \in JobSlots :
       /\ jobs[k].pc = "analyze"
       /\ Len(versionDirs[jobs[k].sym]) >= 2
       /\ LatestVersion(jobs[k].sym) = versionsMade
       /\ answer.fn = "getModelPerformance" /\ answer.sym = jobs[k].sym
       /\ answer.ok /\ answer.value.id = versionsMade

\* C24: the model cache never holds more than CACHE_LIMIT networks.
C24_CacheWithinLimit == Len(modelCache) <= CACHE_LIMIT

\* C25: a prediction request with numeric features for a symbol whose
\* `latest` holds a version returns a result, whose bounds are the prediction
\* minus and plus 1.96 times the stdDev of that version and whose confidence
\* score lies between 0 and 100.
C25_PredictionWithBounds ==
    [][\A s \in ModelSymbols :
         (predictPriceChange(s, "numeric") /\ LatestVersion(s) # 0) =>
            /\ answer'.ok
            /\ answer'.value.lowerBound =
                  100 * answer'.value.prediction
                     - 196 * StdDevOf(LatestFiles(s).performance)
            /\ answer'.value.upperBound =
                  100 * answer'.value.prediction
                     + 196 * StdDevOf(LatestFiles(s).performance)
            /\ answer'.value.confidenceScore \in 0..100]_vars

\* C26: a prediction request in which a feature is missing or not a number,
\* for a symbol whose `latest` holds a version, still returns a prediction.
C26_MissingFeatureStillPredicts ==
    [][\A s \in ModelSymbols :
         (predictPriceChange(s, "missing") /\ LatestVersion(s) # 0) =>
            answer'.ok]_vars

\* C27: an ensemble prediction uses the most recently created versions, at
\* most ENSEMBLE_SIZE of them, and gives a more recent version the higher
\* weight.
C27_EnsembleUsesNewestWeighted ==
    [][\A s \in ModelSymbols :
         (/\ \E o \in Orders(Len(versionDirs[s])) : ensemblePrediction(s, "numeric", o)
          /\ answer'.ok) =>
            /\ Len(answer'.used) = Min(ENSEMBLE_SIZE, Len(versionDirs[s]))
            /\ \A i \in 1..Len(answer'.used) :
                  Rank(versionDirs[s], [id |-> answer'.used[i]]) <= ENSEMBLE_SIZE
            /\ \A i, j \in 1..Len(answer'.used) :
                  answer'.used[i] > answer'.used[j] =>
                     answer'.weights[i] > answer'.weights[j]]_vars

C29_SearchYieldsConfiguration ==
    [][\A k \in JobSlots :
         (/\ jobs[k].pc \in {"load", "trial"}
          /\ jobs'[k].pc \in {"train", "free"}
          /\ answer'.fn = "findOptimalHyperparameters") =>
            /\ answer'.ok
            /\ jobs'[k].pc = "train"]_vars

C32_CorruptFileReadAsEmpty ==
    [][/\ \A k \in 1..MaxLookups, p \in Prices :
            LabelLookupResp(k, TRUE, p) =>
              LET l == labelLookups[k]
                  holders == {m \in Months :
                                /\ Parses(dataFiles[l.sym][m])
                                /\ FindTimestamp(dataFiles[l.sym][m], l.timestamp, 1) # 0}
              IN  holders # {} =>
                    \E m \in holders :
                       dataFiles'[l.sym][m][FindTimestamp(dataFiles[l.sym][m],
                                                          l.timestamp, 1)].labelled
       /\ \A s \in Symbols :
            getSymbolData(s) =>
              answer'.count = Len(ConcatFiles(dataFiles[s], 1))]_vars

\* an argument of an indicator call that is no array or holds an element
\* that is not a number
Malformed(fn, input) ==
    \/ ~input.isArray
    \/ \E i \in 1..Len(input.items) :
          IF fn = "calculateATR" THEN input.items[i].high = NotANumber
          ELSE input.items[i] = NotANumber

IndicatorFns == {"calculateEMA", "calculateMACD", "calculateATR"}

\* C33: a call of an indicator function whose first argument is no array,
\* or holds an element that is not a number, throws, however short the
\* array is.
C33_MalformedInputThrows ==
    answer.fn \in IndicatorFns /\ Malformed(answer.fn, answer.input) => answer.threw

\* C34: at every index of what calculateMACD returns the histogram is the
\* MACD line minus the signal line.
C34_HistogramIsMacdMinusSignal ==
    answer.fn = "calculateMACD" /\ ~answer.threw =>
        \A i \in 1..Len(answer.value.histogram) :
            answer.value.histogram[i] = answer.value.macd[i] - answer.value.signal[i]

\* C35: the 'close' event of a transport that was replaced, while the
\* transport that replaced it is connecting or open, arms no reconnect timer
\* (a timer that would close the new transport in its turn, and so on).
C35_ReplacedTransportArmsNoReconnect ==
    [][\A s \in Symbols : \A i \in 1..Len(sockets[s]) :
         (/\ activeWebSockets[s] # 0 /\ i # activeWebSockets[s]
          /\ Live(sockets[s][activeWebSockets[s]])
          /\ WsCloseEvent(s, i))
         => reconnectTimers'[s] = reconnectTimers[s]]_vars

\* C36: what the periodic backup check decides for a symbol, the side it
\* records and the alert it emits, is decided by confirmed closed candles:
\* it is the same whatever price the still-open last candle of the fetched
\* history showed at the time of the fetch.
C36_BackupCheckIgnoresOpenCandle ==
    [][\A s \in Symbols, p \in Prices :
         (cec.pairs = {s} /\ CecKlinesResp(s, TRUE, p)) =>
            \A q \in Prices :
               LET k == ExchangeKlines(s, q)
                   e == calculateEMA(Closes(k), EMA_PERIOD)
               IN  (Len(k) >= EMA_PERIOD /\ Len(e) >= 2) =>
                      /\ coinStates'[s] = CoinStateAfter(CheckArgs(s, k, e))
                      /\ alerts'[s] = AlertsAfter(CheckArgs(s, k, e))]_vars

\* C37: in every reachable state the candle buffer of every symbol is
\* strictly increasing in the open time of its candles.
C37_BufferStrictlyOrdered ==
    \A s \in Symbols :
        \A i \in 1..Len(klineCache[s]) : \A j \in 1..Len(klineCache[s]) :
            i < j => klineCache[s][i].time < klineCache[s][j].time

\* C38: whenever the model cache holds a network for a symbol, it is the
\* network of the version `latest` of the symbol points to, also while the
\* training that saved that version is still analysing or pruning.
C38_CacheHoldsLatestModel ==
    \A i \in 1..Len(modelCache) :
        modelCache[i].net.id = LatestVersion(modelCache[i].sym)

\* C39: the pruning at the end of a training never deletes the version that
\* `latest` points to: `latest` resolved to a complete version before the
\* pruning, resolves to the same version after it, and that version's
\* directory (the target of the link, when `latest` is a link) still exists.
C39_PruneKeepsLatestTarget ==
    [][\A k \in JobSlots, s \in ModelSymbols :
         (jobs[k].pc = "analyze" /\ jobs[k].sym = s /\ jobs'[k].pc = "free") =>
            /\ LatestVersion(s) # 0
            /\ LatestVersion(s)' = LatestVersion(s)
            /\ HasVersion(s, LatestVersion(s))'
            /\ latest[s].kind = "link" => HasVersion(s, latest[s].target)']_vars

\* a training ended whose pruning deleted a version directory while `latest`
\* is a link to the version saved last
C39_Witness ==
    /\ answer.fn = "trainModelForSymbol" /\ answer.ok
    /\ versionsMade > Len(versionDirs["s1"])
    /\ latest["s1"].kind = "link"
    /\ latest["s1"].target = versionsMade
    /\ HasVersion("s1", versionsMade)
    /\ LatestVersion("s1") = versionsMade

====
